---------------------------- MODULE Spec2Model ----------------------------
(***************************************************************************)
(* A model of the Terraform repository analyzer and code modifier          *)
(* (terraform_analyzer.py, terraform_modifier.py).                         *)
(*                                                                         *)
(* Strings that are paths are modelled as the sequence of their            *)
(* '/'-separated components, i.e. the value of Python's s.split('/'):      *)
(*   "./mod" is <<".", "mod">>, "/abs" is <<"", "abs">>, "" is <<"">>,     *)
(*   "a/" is <<"a", "">>, "https://h/m" is <<"https:", "", "h", "m">>.     *)
(* Joining two strings with a '/' between them is sequence concatenation.  *)
(* The file system is a set of directories and a map from regular files    *)
(* to their content, both keyed by absolute paths (sequences of names      *)
(* from the root, the root being <<>>).                                    *)
(***************************************************************************)
EXTENDS Integers, Sequences, FiniteSets, TLC

VARIABLES
    dirs,       \* the directories of the file system (absolute paths)
    files,      \* regular files: absolute path -> content
    dependency_graph,   \* analyzer.dependency_graph: [order, attrs, edges]
    trace,      \* what the last build_dependency_graph run did, step by step
    derived,    \* file -> the edges derived from its most recent successful parse
    builds,     \* number of build_dependency_graph runs so far
    changes,    \* number of apply_modifications runs so far
    phase,      \* the operation that acted last
    call,       \* the last call of a pure function: its inputs and its result
    relevant,   \* the list identify_relevant_files returned last
    prompts,    \* the prompts modify_files sent to the model in its last run
    mods,       \* the mapping modify_files returned last: [keys, val]
    request     \* the inputs of the last modify_files run

vars == <<dirs, files, dependency_graph, trace, derived, builds, changes, phase, call,
          relevant, prompts, mods, request>>

(***************************************************************************)
(* Bounds of the model.                                                    *)
(***************************************************************************)
MaxModules == 2     \* module blocks in one Terraform file
MaxBuilds == 2      \* build_dependency_graph runs on one analyzer
MaxPaths == 2       \* paths in one model response / in file_paths
MaxTokens == 5      \* tokens in one model answer

(***************************************************************************)
(* Generic helpers.                                                        *)
(***************************************************************************)
Last(s) == s[Len(s)]

Front(s) == SubSeq(s, 1, Len(s) - 1)

Range(s) == {s[i] : i \in 1..Len(s)}

RECURSIVE Concat(_)
\* The concatenation of a sequence of sequences.
Concat(ss) == IF ss = <<>> THEN <<>> ELSE Head(ss) \o Concat(Tail(ss))

SeqsUpTo(S, n) == UNION {[1..k -> S] : k \in 0..n}

NoDup(s) == \A i, j \in 1..Len(s) : s[i] = s[j] => i = j

(***************************************************************************)
(* Character-level facts about the component strings of the model.  TLC    *)
(* treats a string as atomic, so a test on the characters of a component   *)
(* is the membership of an enumerated set.                                 *)
(***************************************************************************)
TfNames == {"main.tf", "svc.tf", "x.tf", "v.tf", "y.tf", "e.tf", "c.tf", "a.tf",
            "nope.tf", "new.tf"}                          \* fnmatch(name, '*.tf')

TfJsonNames == {"vars.tf.json"}                 \* fnmatch(name, '*.tf.json')

HiddenNames == {".git"}                         \* name starts with '.'

DriveNames == {"C:mods"}                        \* re.match(r'^[a-zA-Z]:', name)

ColonEnded == {"https:", "git::https:"}         \* name.endswith(':')

(***************************************************************************)
(* String predicates of resolve_module_path on component sequences.        *)
(***************************************************************************)
StartsWithSlash(s) == Len(s) >= 2 /\ s[1] = ""

StartsWithDotSlash(s) == Len(s) >= 2 /\ s[1] = "."

StartsWithDotDotSlash(s) == Len(s) >= 2 /\ s[1] = ".."

HasDriveLetter(s) == s[1] \in DriveNames

ContainsScheme(s) ==
    \* '://' in s
    \E i \in 1..(Len(s) - 2) : s[i] \in ColonEnded /\ s[i + 1] = ""

(***************************************************************************)
(* posixpath                                                               *)
(***************************************************************************)
Join(a, b) ==
    \* os.path.join(a, b): b if b is absolute, a + b if a is empty or ends
    \* with '/', and a + '/' + b otherwise
    IF StartsWithSlash(b) THEN b
    ELSE IF Last(a) = "" THEN Front(a) \o b
    ELSE a \o b

RECURSIVE NormComps(_, _, _)
\* The loop of normpath over the components: new_comps after the loop.
NormComps(comps, acc, rooted) ==
    IF comps = <<>> THEN acc
    ELSE LET c == Head(comps)
             rest == Tail(comps)
         IN  IF c \in {"", "."} THEN NormComps(rest, acc, rooted)
             ELSE IF \/ c # ".."
                     \/ (~rooted /\ acc = <<>>)
                     \/ (acc # <<>> /\ Last(acc) = "..")
                  THEN NormComps(rest, Append(acc, c), rooted)
             ELSE IF acc # <<>> THEN NormComps(rest, Front(acc), rooted)
             ELSE NormComps(rest, acc, rooted)

NormPath(s) ==
    \* os.path.normpath(s)
    IF s = <<"">> THEN <<".">>
    ELSE LET rooted == StartsWithSlash(s)
             two == /\ Len(s) >= 3 /\ s[1] = "" /\ s[2] = ""
                    /\ ~(Len(s) >= 4 /\ s[3] = "")
             comps == NormComps(s, <<>>, rooted)
         IN  IF rooted
             THEN (IF two THEN <<"", "">> ELSE <<"">>)
                  \o (IF comps = <<>> THEN <<"">> ELSE comps)
             ELSE IF comps = <<>> THEN <<".">> ELSE comps

RECURSIVE StripTrailingEmpty(_)
StripTrailingEmpty(s) ==
    IF s # <<>> /\ Last(s) = "" THEN StripTrailingEmpty(Front(s)) ELSE s

DirName(s) ==
    \* os.path.dirname(s): everything before the last '/', without trailing
    \* slashes unless it consists of slashes only
    IF Len(s) = 1 THEN <<"">>
    ELSE LET head == Front(s)
         IN  IF \A i \in 1..Len(head) : head[i] = ""
             THEN Append(head, "")
             ELSE StripTrailingEmpty(head)

BaseName(s) == <<Last(s)>>    \* os.path.basename(s)

RECURSIVE LStripSlash(_)
\* s.lstrip('/')
LStripSlash(s) ==
    IF StartsWithSlash(s) THEN LStripSlash(Tail(s)) ELSE s

(***************************************************************************)
(* The process and the analyzer's construction arguments.                  *)
(***************************************************************************)
Cwd == <<"w">>                              \* os.getcwd(), as names from /

LocalDir == <<".", "terraform_repo">>       \* DEFAULT_LOCAL_DIR

AbsNames(s) ==
    \* the non-empty components of os.path.abspath(s)
    LET n == NormPath(IF StartsWithSlash(s) THEN s ELSE <<"">> \o Cwd \o s)
    IN  SelectSeq(n, LAMBDA c : c # "")

RECURSIVE CommonLen(_, _)
\* len(os.path.commonprefix([a, b])) for two lists of names
CommonLen(a, b) ==
    IF a = <<>> \/ b = <<>> \/ Head(a) # Head(b) THEN 0
    ELSE 1 + CommonLen(Tail(a), Tail(b))

RelPath(p, start) ==
    \* os.path.relpath(p, start)
    LET sl == AbsNames(start)
        pl == AbsNames(p)
        i == CommonLen(sl, pl)
        rel == [k \in 1..(Len(sl) - i) |-> ".."] \o SubSeq(pl, i + 1, Len(pl))
    IN  IF rel = <<>> THEN <<".">> ELSE rel

(***************************************************************************)
(* The file system.                                                        *)
(***************************************************************************)
NoEnt == <<"?">>    \* the result of resolving a path that does not exist

IsEntry(d, f, a) == a \in d \/ a \in DOMAIN f

RECURSIVE LookupFrom(_, _, _, _)
\* Path resolution as the kernel does it: every component but the last
\* must name a directory; '' and '.' stay, '..' goes to the parent.
LookupFrom(d, f, cur, comps) ==
    IF comps = <<>> THEN cur
    ELSE IF cur \notin d THEN NoEnt
    ELSE LET c == Head(comps)
         IN  IF c \in {"", "."} THEN LookupFrom(d, f, cur, Tail(comps))
             ELSE IF c = ".."
                  THEN LookupFrom(d, f, IF cur = <<>> THEN cur ELSE Front(cur),
                                  Tail(comps))
             ELSE IF IsEntry(d, f, Append(cur, c))
                  THEN LookupFrom(d, f, Append(cur, c), Tail(comps))
             ELSE NoEnt

Lookup(d, f, s) ==
    IF s = <<"">> THEN NoEnt
    ELSE IF StartsWithSlash(s) THEN LookupFrom(d, f, <<>>, Tail(s))
    ELSE LookupFrom(d, f, Cwd, s)

Exists(d, f, s) == Lookup(d, f, s) # NoEnt      \* os.path.exists(s)

IsDir(d, f, s) == Lookup(d, f, s) \in d         \* os.path.isdir(s)

IsFile(d, f, s) == Lookup(d, f, s) \in DOMAIN f \* os.path.isfile(s)


(***************************************************************************)
(* File contents.  A file's content is what hcl2.load makes of it:         *)
(* parses = FALSE when the parser raises, otherwise the parsed mapping,    *)
(* of which the model keeps the set of top-level keys and the value under  *)
(* 'module'.  A module value is a mapping (enc "dict": its items in        *)
(* order), a list of mappings (enc "list") or something else ("other").    *)
(* An item is a name and a configuration; a configuration is a mapping     *)
(* (kind "map") with or without a 'source', a number ("int") or a text     *)
(* that does not contain the word source ("str"); a source is a string     *)
(* (isStr, with its components) or not a string, e.g. a list.              *)
(***************************************************************************)
StrSource(s) == [isStr |-> TRUE, s |-> s]

NonStrSource == [isStr |-> FALSE, s |-> <<"">>]

MapConfig(src) == [kind |-> "map", hasSource |-> TRUE, source |-> src]

NoSourceConfig == [kind |-> "map", hasSource |-> FALSE, source |-> NonStrSource]

IntConfig == [kind |-> "int", hasSource |-> FALSE, source |-> NonStrSource]

StrConfig == [kind |-> "str", hasSource |-> FALSE, source |-> NonStrSource]

Item(name, config) == [name |-> name, config |-> config]

DictModule(items) == [enc |-> "dict", groups |-> <<items>>]

ListModule(groups) == [enc |-> "list", groups |-> groups]

OtherModule == [enc |-> "other", groups |-> <<>>]

Unparseable(text) ==
    [text |-> text, parses |-> FALSE, keys |-> {}, module |-> OtherModule]

Parsed(text, keys, module) ==
    [text |-> text, parses |-> TRUE, keys |-> keys, module |-> module]

EmptyDict == Parsed("hcl", {}, OtherModule)     \* what hcl2 returns for an empty file

NoModules == Parsed("hcl", {"resource"}, OtherModule)

WithModule(m) == Parsed("hcl", {"module", "resource"}, m)

(***************************************************************************)
(* glob                                                                    *)
(***************************************************************************)
\* The order in which os.scandir lists the names of a directory: the
\* operating system chooses it; the model fixes one.
NameOrder ==
    <<"main.tf", "vars.tf.json", "README.md", "plain", "x.tf", "v.tf", "y.tf",
      "svc.tf", "e.tf", "c.tf", "a.tf", "nope.tf", "new.tf", ".git", "app", "mod",
      "sub", "empty", "new", "ext", "cw", "abs", "repo", "w", "terraform_repo",
      "terraform_graph.json", "config">>

ListDir(d, f, abs) ==
    \* os.listdir of the directory abs, in scandir order
    SelectSeq(NameOrder, LAMBDA n : IsEntry(d, f, Append(abs, n)))

RECURSIVE RListDir(_, _, _, _)
\* glob._rlistdir: the directory itself, then every visible entry below it,
\* depth first; rel is the path from the directory the walk started in.
RListDir(d, f, abs, rel) ==
    LET names == SelectSeq(ListDir(d, f, abs), LAMBDA n : n \notin HiddenNames)
        below == [i \in 1..Len(names) |->
                    RListDir(d, f, Append(abs, names[i]), Append(rel, names[i]))]
    IN  IF abs \in d THEN <<rel>> \o Concat(below) ELSE <<rel>>

GlobNames(d, f, s, matching) ==
    \* glob.glob(f"{s}/<pattern>"): the visible entries directly in s whose
    \* name matches the pattern, each joined to s
    IF ~IsDir(d, f, s) THEN <<>>
    ELSE LET names == SelectSeq(ListDir(d, f, Lookup(d, f, s)),
                                LAMBDA n : n \in matching /\ n \notin HiddenNames)
         IN  [i \in 1..Len(names) |-> Append(s, names[i])]

GlobRecursive(d, f, s, matching) ==
    \* glob.glob(f"{s}/**/<pattern>", recursive=True)
    IF ~IsDir(d, f, s) THEN <<>>
    ELSE LET under == RListDir(d, f, Lookup(d, f, s), <<>>)
         IN  Concat([i \in 1..Len(under) |->
                        GlobNames(d, f, s \o under[i], matching)])

FindTerraformFiles(d, f, local_dir) ==
    GlobRecursive(d, f, local_dir, TfNames) \o GlobRecursive(d, f, local_dir, TfJsonNames)

find_terraform_files(d, f) == FindTerraformFiles(d, f, LocalDir)

(***************************************************************************)
(* parse_terraform_file, extract_module_dependencies, resolve_module_path  *)
(***************************************************************************)
parse_terraform_file(d, f, file_path) ==
    \* the parsed content, or the empty mapping when open or the parser raises
    IF IsFile(d, f, file_path) /\ f[Lookup(d, f, file_path)].parses
    THEN f[Lookup(d, f, file_path)]
    ELSE EmptyDict

Truthy(parsed_content) == parsed_content.keys # {}

Dependency(item) ==
    [type |-> "module", name |-> item.name, source |-> item.config.source]

RECURSIVE ExtractItems(_, _)
\* The loop over the items of one mapping, appending to dependencies.
\* 'source' in module_config raises for a number, is a substring test for a
\* text and a key test for a mapping.
ExtractItems(items, out) ==
    IF items = <<>> \/ out.raised THEN out
    ELSE LET it == Head(items)
         IN  IF it.config.kind = "int"
             THEN [out EXCEPT !.raised = TRUE]
             ELSE IF it.config.kind = "map" /\ it.config.hasSource
             THEN ExtractItems(Tail(items),
                               [out EXCEPT !.deps = Append(@, Dependency(it))])
             ELSE ExtractItems(Tail(items), out)

ExtractDict(items) ==
    \* the isinstance(module_content, dict) branch
    ExtractItems(items, [raised |-> FALSE, deps |-> <<>>])

RECURSIVE ExtractGroups(_, _)
ExtractGroups(groups, out) ==
    IF groups = <<>> \/ out.raised THEN out
    ELSE ExtractGroups(Tail(groups), ExtractItems(Head(groups), out))

ExtractListFirstOnly(groups) ==
    \* only the first mapping of the list is read
    IF groups = <<>> THEN [raised |-> FALSE, deps |-> <<>>]
    ELSE ExtractItems(Head(groups), [raised |-> FALSE, deps |-> <<>>])

ExtractList(groups) ==
    \* the isinstance(module_content, list) branch
    ExtractGroups(groups, [raised |-> FALSE, deps |-> <<>>])

extract_module_dependencies(parsed_content) ==
    IF "module" \in parsed_content.keys
    THEN IF parsed_content.module.enc = "dict"
         THEN ExtractDict(parsed_content.module.groups[1])
         ELSE IF parsed_content.module.enc = "list"
         THEN ExtractList(parsed_content.module.groups)
         ELSE [raised |-> FALSE, deps |-> <<>>]
    ELSE [raised |-> FALSE, deps |-> <<>>]

IsLocalStyleNoDotSlash(s) ==
    \* without the './' prefix test
    StartsWithDotDotSlash(s) \/ s = <<".">> \/ s = <<"..">>

IsLocalStyle(s) ==
    StartsWithDotSlash(s) \/ StartsWithDotDotSlash(s) \/ s = <<".">> \/ s = <<"..">>

IsBareRelative(s) ==
    ~StartsWithSlash(s) /\ ~HasDriveLetter(s) /\ ~ContainsScheme(s)

ResolveExists(d, f, local_path) == Exists(d, f, local_path)

resolve_module_path(d, f, source, parent_file) ==
    \* source.startswith raises when the source is not a string
    LET parent_dir == DirName(parent_file)
        joined == NormPath(Join(parent_dir, source.s))
    IN  IF ~source.isStr THEN [raised |-> TRUE, path |-> <<"">>]
        ELSE IF IsLocalStyle(source.s) THEN [raised |-> FALSE, path |-> joined]
        ELSE IF IsBareRelative(source.s) /\ ResolveExists(d, f, joined)
        THEN [raised |-> FALSE, path |-> joined]
        ELSE [raised |-> FALSE, path |-> source.s]

(***************************************************************************)
(* networkx.DiGraph: the nodes in insertion order, an attribute mapping    *)
(* per node and one attribute mapping per ordered pair of nodes.           *)
(***************************************************************************)
NoAttrs == [k \in {} |-> ""]

EmptyGraph == [order |-> <<>>, attrs |-> [n \in {} |-> NoAttrs],
               edges |-> [e \in {} |-> NoAttrs]]

Nodes(g) == Range(g.order)

Edges(g) == DOMAIN g.edges

add_node(g, n, a) ==
    \* new attributes update the ones the node has
    IF n \in Nodes(g)
    THEN [g EXCEPT !.attrs = (n :> (a @@ g.attrs[n])) @@ @]
    ELSE [g EXCEPT !.order = Append(@, n), !.attrs = (n :> a) @@ @]

add_edge(g, u, v, a) ==
    \* missing end nodes are created without attributes; the attributes of
    \* an edge that exists are updated
    LET g1 == add_node(g, u, NoAttrs)
        g2 == add_node(g1, v, NoAttrs)
        e == <<u, v>>
    IN  IF e \in Edges(g2)
        THEN [g2 EXCEPT !.edges = (e :> (a @@ g2.edges[e])) @@ @]
        ELSE [g2 EXCEPT !.edges = (e :> a) @@ @]

OutEdges(g, u) == {e \in Edges(g) : e[1] = u}

(***************************************************************************)
(* build_dependency_graph.  The run is folded over the scanned files and   *)
(* their dependency records; st is the state of the run: the graph (which  *)
(* the code updates in place), the steps taken so far and whether an       *)
(* exception has left the method.  A step records the file and module it   *)
(* is about, the module's resolved path and the edge targets it added:     *)
(*   "noparse"  the file's parsed content is empty, the file is skipped    *)
(*   "nodeps"   the file has no dependency record, it is skipped           *)
(*   "missing"  the module path does not exist                             *)
(*   "notdir"   the module path exists and is not a directory              *)
(*   "empty"    the module directory holds no *.tf entry                   *)
(*   "edges"    one edge per *.tf entry of the module directory was added  *)
(*   "raise"    an exception was raised (idx 0: while extracting)          *)
(***************************************************************************)
Step(ev, file, idx, dep, resolved, added) ==
    [ev |-> ev, file |-> file, idx |-> idx, name |-> dep.name,
     source |-> dep.source, resolved |-> resolved, added |-> added]

NoDep == [type |-> "module", name |-> "", source |-> NonStrSource]

FileStep(ev, file) == Step(ev, file, 0, NoDep, <<"">>, {})

Log(st, step) == [st EXCEPT !.steps = Append(@, step)]

Raise(st, file, idx, dep) ==
    [Log(st, Step("raise", file, idx, dep, <<"">>, {})) EXCEPT !.raised = TRUE]

RECURSIVE AddFileNodes(_, _)
\* lines 226-232: every scanned file becomes a node
AddFileNodes(g, tf_files) ==
    IF tf_files = <<>> THEN g
    ELSE AddFileNodes(add_node(g, RelPath(Head(tf_files), LocalDir),
                               ("type" :> "file") @@ ("path" :> Head(tf_files))),
                      Tail(tf_files))

EdgeAttrs(name) == ("type" :> "module_dependency") @@ ("module_name" :> name)

RECURSIVE AddModuleEdges(_, _, _, _)
\* lines 270-281: one add_edge per module file
AddModuleEdges(g, relative_path, module_files, name) ==
    IF module_files = <<>> THEN g
    ELSE AddModuleEdges(add_edge(g, relative_path,
                                 RelPath(Head(module_files), LocalDir),
                                 EdgeAttrs(name)),
                        relative_path, Tail(module_files), name)

AfterEmptyModuleBreak(deps, i) == Len(deps) + 1     \* 'break' for 'continue'

AfterEmptyModule(deps, i) == i + 1      \* 'continue': on to the next record

RECURSIVE ProcessDeps(_, _, _, _, _, _)
\* lines 252-285: the loop over the dependency records of one file
ProcessDeps(d, f, st, file_path, deps, i) ==
    IF i > Len(deps) \/ st.raised THEN st
    ELSE LET rel == RelPath(file_path, LocalDir)
             dep == deps[i]
             res == resolve_module_path(d, f, dep.source, file_path)
             module_path == res.path
             module_files == GlobNames(d, f, module_path, TfNames)
             targets == {RelPath(module_files[k], LocalDir) :
                            k \in 1..Len(module_files)}
         IN  IF res.raised THEN Raise(st, rel, i, dep)
             ELSE IF ~Exists(d, f, module_path)
             THEN ProcessDeps(d, f,
                      Log(st, Step("missing", rel, i, dep, module_path, {})),
                      file_path, deps, i + 1)
             ELSE IF ~IsDir(d, f, module_path)
             THEN ProcessDeps(d, f,
                      Log(st, Step("notdir", rel, i, dep, module_path, {})),
                      file_path, deps, i + 1)
             ELSE IF module_files = <<>>
             THEN ProcessDeps(d, f,
                      Log(st, Step("empty", rel, i, dep, module_path, {})),
                      file_path, deps, AfterEmptyModule(deps, i))
             ELSE ProcessDeps(d, f,
                      Log([st EXCEPT !.g = AddModuleEdges(@, rel, module_files, dep.name)],
                          Step("edges", rel, i, dep, module_path, targets)),
                      file_path, deps, i + 1)

AbortOnFile(st, rel) == Raise(st, rel, 0, NoDep)     \* 'raise' for 'continue'

\* lines 240-242: no parsed content, on to the next file
SkipFile(st, rel) == Log(st, FileStep("noparse", rel))

ProcessFile(d, f, st, file_path) ==
    \* lines 237-250, then the loop over the records
    LET rel == RelPath(file_path, LocalDir)
        parsed_content == parse_terraform_file(d, f, file_path)
        ex == extract_module_dependencies(parsed_content)
    IN  IF ~Truthy(parsed_content) THEN SkipFile(st, rel)
        ELSE IF ex.raised THEN Raise(st, rel, 0, NoDep)
        ELSE IF ex.deps = <<>> THEN Log(st, FileStep("nodeps", rel))
        ELSE ProcessDeps(d, f, st, file_path, ex.deps, 1)

RECURSIVE ProcessFiles(_, _, _, _)
\* lines 236-285: the loop over the scanned files
ProcessFiles(d, f, st, tf_files) ==
    IF tf_files = <<>> \/ st.raised THEN st
    ELSE ProcessFiles(d, f, ProcessFile(d, f, st, Head(tf_files)), Tail(tf_files))

build_dependency_graph(d, f, g) ==
    LET tf_files == find_terraform_files(d, f)
    IN  ProcessFiles(d, f,
                     [g |-> AddFileNodes(g, tf_files), steps |-> <<>>, raised |-> FALSE],
                     tf_files)

(***************************************************************************)
(* The file systems of the model.  The process runs in /w, the working     *)
(* copy is /w/terraform_repo; /w/ext, /w/cw and /abs lie outside it.       *)
(***************************************************************************)
Repo == AbsNames(LocalDir)

MainTf == Repo \o <<"main.tf">>

ModX == Repo \o <<"mod", "x.tf">>

BaseDirs ==
    {<<>>, Cwd, Repo, Repo \o <<"app">>, Repo \o <<"mod">>,
     Repo \o <<"mod", "sub">>, Repo \o <<"empty">>,
     Cwd \o <<"ext">>, Cwd \o <<"cw">>, <<"abs">>}

SvcContent ==
    WithModule(ListModule(<<
        <<Item("m", MapConfig(StrSource(<<"..", "mod">>)))>> >>))

BaseFiles ==
    (Repo \o <<"vars.tf.json">> :> Unparseable("json"))
    @@ (Repo \o <<"app", "svc.tf">> :> SvcContent)
    @@ (ModX :> NoModules)
    @@ (Repo \o <<"mod", "v.tf">> :> NoModules)
    @@ (Repo \o <<"mod", "sub", "y.tf">> :> NoModules)
    @@ (Repo \o <<"empty", "README.md">> :> Unparseable("text"))
    @@ (Repo \o <<"plain">> :> Unparseable("text"))
    @@ (Cwd \o <<"ext", "e.tf">> :> NoModules)
    @@ (Cwd \o <<"cw", "c.tf">> :> NoModules)
    @@ (<<"abs", "a.tf">> :> NoModules)

WithFile(f, a, content) == (a :> content) @@ f

WithoutFile(f, a) == [x \in DOMAIN f \ {a} |-> f[x]]

\* Module sources: local style, bare relative, absolute, registry, VCS.
LocalSources ==
    {<<".", "mod">>, <<".", "empty">>, <<".", "missing">>, <<"..", "ext">>,
     <<".">>, <<"..">>}

BareSources ==
    {<<"mod">>, <<"plain">>, <<"cw">>, <<"hashicorp", "consul", "aws">>}

OtherSources ==
    {<<"", "abs">>, <<"git::https:", "", "example.com", "m.git">>, <<"C:mods">>}

Sources == LocalSources \cup BareSources \cup OtherSources

BlockNames == <<"a", "b", "c">>     \* the name of the i-th module block

Configs ==
    {MapConfig(StrSource(s)) : s \in Sources}
        \cup {MapConfig(NonStrSource), NoSourceConfig, IntConfig, StrConfig}

\* The item lists of a file with up to n module blocks.
ItemLists(n) ==
    {[i \in 1..Len(cs) |-> Item(BlockNames[i], cs[i])] : cs \in SeqsUpTo(Configs, n)}

Singletons(items) == [i \in 1..Len(items) |-> <<items[i]>>]

\* What the parser may return for a file with up to n module blocks.
Contents(n) ==
    {WithModule(DictModule(items)) : items \in ItemLists(n)}
        \cup {WithModule(ListModule(Singletons(items))) : items \in ItemLists(n)}
        \cup {WithModule(OtherModule), NoModules, EmptyDict, Unparseable("hcl")}

(***************************************************************************)
(* State machine.                                                          *)
(***************************************************************************)
NoTrace == [steps |-> <<>>, raised |-> FALSE]

NoCall == [fn |-> "none"]

NoMods == [keys |-> <<>>, val |-> [k \in {} |-> ""]]

NoRequest == [modification_request |-> "", file_paths |-> <<>>]

InitRest ==
    /\ dependency_graph = EmptyGraph       \* __init__, line 34
    /\ trace = NoTrace
    /\ derived = [n \in {} |-> {}]
    /\ builds = 0
    /\ changes = 0
    /\ phase = "new"
    /\ call = NoCall
    /\ relevant = <<>>
    /\ prompts = <<>>
    /\ mods = NoMods
    /\ request = NoRequest

ParsedFiles(d, f) ==
    \* the scanned files that hcl2.load parses without raising
    {RelPath(p, LocalDir) : p \in {q \in Range(find_terraform_files(d, f)) :
        IsFile(d, f, q) /\ f[Lookup(d, f, q)].parses}}

StepEdges(steps, n) ==
    \* the edges of file n as <<target, module name>> pairs, from the steps
    UNION {{<<t, steps[k].name>> : t \in steps[k].added} :
              k \in {j \in 1..Len(steps) : steps[j].file = n}}

\* analyzer.build_dependency_graph()
Build ==
    /\ phase \in {"new", "built", "applied"}
    /\ builds < MaxBuilds
    /\ \E st \in {build_dependency_graph(dirs, files, dependency_graph)} :
       \E now \in {IF st.raised THEN {} ELSE ParsedFiles(dirs, files)} :
           /\ dependency_graph' = st.g
           /\ trace' = [steps |-> st.steps, raised |-> st.raised]
           /\ derived' = [n \in now \cup DOMAIN derived |->
                            IF n \in now THEN StepEdges(st.steps, n) ELSE derived[n]]
    /\ builds' = builds + 1
    /\ phase' = "built"
    /\ UNCHANGED <<dirs, files, changes, call, relevant, prompts, mods, request>>

(***************************************************************************)
(* SpecBuild: build_dependency_graph on a working copy whose main.tf holds *)
(* any content of up to MaxModules module blocks.                          *)
(***************************************************************************)
InitBuild ==
    /\ dirs = BaseDirs
    /\ files \in {WithFile(BaseFiles, MainTf, c) : c \in Contents(MaxModules)}
    /\ InitRest

NextBuild == Build

SpecBuild == InitBuild /\ [][NextBuild]_vars

(***************************************************************************)
(* What a build is expected to do, stated from the working copy.           *)
(***************************************************************************)
Scanned == find_terraform_files(dirs, files)

DepsOf(file_path) ==
    \* the dependency records of a scanned file, <<>> when it has none
    LET parsed_content == parse_terraform_file(dirs, files, file_path)
        ex == extract_module_dependencies(parsed_content)
    IN  IF Truthy(parsed_content) /\ ~ex.raised THEN ex.deps ELSE <<>>

ModuleDir(dep, file_path) ==
    resolve_module_path(dirs, files, dep.source, file_path).path

TfEntries(s) ==
    \* the *.tf entries directly inside directory s, relative to local_dir
    {RelPath(Append(s, n), LocalDir) :
        n \in {m \in TfNames \ HiddenNames :
                  IsEntry(dirs, files, Append(Lookup(dirs, files, s), m))}}

GoodModule(dep, file_path) ==
    \* the module's resolved path is an existing directory
    dep.source.isStr /\ IsDir(dirs, files, ModuleDir(dep, file_path))

Inside(n, dir) ==
    \* the path n, relative to local_dir, lies below directory dir
    LET a == AbsNames(LocalDir \o n)
        b == AbsNames(dir)
    IN  Len(a) > Len(b) /\ SubSeq(a, 1, Len(b)) = b

DirectlyInside(n, dir) ==
    Inside(n, dir) /\ Len(AbsNames(LocalDir \o n)) = Len(AbsNames(dir)) + 1

\* C1: for every scanned file F and every module block M of F whose resolved
\* source path is an existing directory D, after build_dependency_graph the
\* graph has an edge from F to each .tf file directly inside D, of type
\* 'module_dependency' and with module_name equal to M's name, and M accounts
\* for no edge from F to a file in a subdirectory of D.
C1_EdgePerModuleFile ==
    (phase = "built" /\ ~trace.raised) =>
        \A file_path \in Range(Scanned) :
            LET F == RelPath(file_path, LocalDir)
                deps == DepsOf(file_path)
            IN  \A i \in 1..Len(deps) :
                    GoodModule(deps[i], file_path) =>
                        LET D == ModuleDir(deps[i], file_path)
                        IN  /\ \A t \in TfEntries(D) :
                                /\ <<F, t>> \in Edges(dependency_graph)
                                /\ dependency_graph.edges[<<F, t>>]["type"] = "module_dependency"
                                /\ dependency_graph.edges[<<F, t>>]["module_name"] = deps[i].name
                            /\ \A e \in OutEdges(dependency_graph, F) :
                                (Inside(e[2], D) /\ ~DirectlyInside(e[2], D)) =>
                                    \E j \in 1..Len(deps) :
                                        /\ j # i
                                        /\ GoodModule(deps[j], file_path)
                                        /\ e[2] \in TfEntries(ModuleDir(deps[j], file_path))

Unresolved(source, file_path) ==
    \* resolve_module_path leaves the source as it is: it is not local style
    \* and names nothing that exists next to the referencing file
    /\ ~IsLocalStyle(source)
    /\ ~(IsBareRelative(source)
         /\ Exists(dirs, files, NormPath(Join(DirName(file_path), source))))

UnresolvedAddNothing ==
    \* no module of the last run whose source stayed unresolved added an edge
    \A k \in 1..Len(trace.steps) :
        LET st == trace.steps[k]
        IN  (st.idx > 0 /\ st.source.isStr
                /\ Unresolved(st.source.s, LocalDir \o st.file))
            => st.added = {}

\* C2: a module whose source resolve_module_path leaves unresolved (absolute,
\* with '://', a registry address, a bare relative path that does not exist
\* next to the referencing file) never produces an edge.
C2_UnresolvedNoEdge == phase = "built" => UnresolvedAddNothing

StepKeys ==
    [k \in 1..Len(trace.steps) |-> <<trace.steps[k].file, trace.steps[k].idx>>]

ExpectedKeys(scanned) ==
    \* one step per scanned file without dependency records, and one per
    \* dependency record of the other files, in scan order
    Concat([k \in 1..Len(scanned) |->
        LET F == RelPath(scanned[k], LocalDir)
            deps == DepsOf(scanned[k])
        IN  IF deps = <<>> THEN << <<F, 0>> >>
            ELSE [i \in 1..Len(deps) |-> <<F, i>>]])

BadPath(s) ==
    \/ ~Exists(dirs, files, s)
    \/ ~IsDir(dirs, files, s)
    \/ TfEntries(s) = {}

IsPrefix(a, b) == Len(a) <= Len(b) /\ SubSeq(b, 1, Len(a)) = a

\* C3: a module whose resolved path does not exist, is not a directory, or is
\* a directory holding no .tf file adds no edge and no node, does not raise,
\* and the run goes on with the remaining modules of the file and with the
\* remaining files.
C3_BadPathSkipped ==
    phase = "built" =>
        \E scanned \in {Scanned} : \E expected \in {ExpectedKeys(scanned)} :
        /\ IsPrefix(StepKeys, expected)
        /\ (~trace.raised => StepKeys = expected)
        /\ \A k \in 1..Len(trace.steps) :
            LET st == trace.steps[k]
            IN  (st.idx > 0 /\ st.source.isStr
                    /\ BadPath(ModuleDir(st, LocalDir \o st.file)))
                => /\ st.ev \in {"missing", "notdir", "empty"}
                   /\ st.added = {}
                   /\ (k < Len(expected) => k < Len(trace.steps))
        /\ Edges(dependency_graph) =
             UNION {{<<trace.steps[k].file, t>> : t \in trace.steps[k].added} :
                        k \in 1..Len(trace.steps)}
        /\ Nodes(dependency_graph) =
             {RelPath(p, LocalDir) : p \in Range(scanned)}
                 \cup {e[2] : e \in Edges(dependency_graph)}

C3_Witness ==
    /\ phase = "built"
    /\ \E k \in 1..Len(trace.steps) : \E j \in 1..Len(trace.steps) :
        /\ trace.steps[k].ev \in {"missing", "notdir", "empty"}
        /\ k + 1 < j
        /\ trace.steps[k + 1].file = trace.steps[k].file
        /\ trace.steps[k + 1].ev = "edges"
        /\ trace.steps[j].file # trace.steps[k].file
        /\ trace.steps[j].ev = "edges"

\* C7: after build_dependency_graph every node of the graph, the targets of
\* edges included, is a file inside the repository, relative to local_dir,
\* with the attributes type = 'file' and path.  (Stated for the runs in which
\* every edge comes from a module that was resolved against the referencing
\* file's directory, so that a violation does not rest on that of C2.)
C7_NodesAreRepoFiles ==
    (phase = "built" /\ UnresolvedAddNothing) =>
        \A n \in Nodes(dependency_graph) :
            /\ {"type", "path"} \subseteq DOMAIN dependency_graph.attrs[n]
            /\ dependency_graph.attrs[n]["type"] = "file"
            /\ Inside(n, LocalDir)
            /\ IsFile(dirs, files, LocalDir \o n)

\* the scanned file cannot be parsed or parses to an empty mapping
Unparsed(file_path) ==
    \/ ~IsFile(dirs, files, file_path)
    \/ ~files[Lookup(dirs, files, file_path)].parses
    \/ files[Lookup(dirs, files, file_path)].keys = {}

\* C20: a scanned file whose parse fails or yields empty content stays a node
\* of the graph, gets no outgoing edge in that run and does not end the run:
\* the run raises only at another file, and every other scanned file is
\* processed unless the run raised.
C20_UnparsedFileKeptAndSkipped ==
    phase = "built" =>
        \E scanned \in {Scanned} :
        \E rel \in {[k \in 1..Len(scanned) |-> RelPath(scanned[k], LocalDir)]} :
        \E stepped \in {{trace.steps[i].file : i \in 1..Len(trace.steps)}} :
            \A k \in 1..Len(scanned) :
                Unparsed(scanned[k]) =>
                    /\ rel[k] \in Nodes(dependency_graph)
                    /\ \A i \in 1..Len(trace.steps) :
                          trace.steps[i].file = rel[k] =>
                              /\ trace.steps[i].ev = "noparse"
                              /\ trace.steps[i].added = {}
                    /\ trace.raised => Last(trace.steps).file # rel[k]
                    /\ ~trace.raised => Range(rel) \subseteq stepped

C20_Witness ==
    /\ phase = "built"
    /\ Unparsed(Scanned[1])
    /\ \E i \in 1..Len(trace.steps) : \E j \in 1..Len(trace.steps) :
        /\ i < j
        /\ trace.steps[i].ev = "noparse"
        /\ trace.steps[i].file = RelPath(Scanned[1], LocalDir)
        /\ trace.steps[j].ev = "edges"

\* C30: build_dependency_graph ends without raising for every value the
\* parser can return: a 'module' value that is neither a mapping nor a list,
\* module entries whose configuration is not a mapping, module sources that
\* are not strings; such a file adds no edge and every scanned file is still
\* processed.
C30_BuildNeverRaises ==
    phase = "built" =>
        /\ ~trace.raised
        /\ \E scanned \in {Scanned} :
             \A k \in 1..Len(scanned) :
                \E j \in 1..Len(trace.steps) :
                    trace.steps[j].file = RelPath(scanned[k], LocalDir)

(***************************************************************************)
(* SpecResolve: resolve_module_path called with every source of the model  *)
(* and every scanned file as the referencing file.                         *)
(***************************************************************************)
\* main(): local_dir = os.path.join(args.output_dir, "repo"), here with
\* --output-dir '..'
OutputRepoDir == <<"..", "repo">>

LocalDirs == {LocalDir, OutputRepoDir}

ResolveBase ==
    WithFile(WithFile(BaseFiles, MainTf, NoModules),
             AbsNames(OutputRepoDir) \o <<"main.tf">>, NoModules)

ResolveFileSystems ==
    {ResolveBase, WithoutFile(ResolveBase, Repo \o <<"plain">>)}

InitResolve ==
    /\ dirs = BaseDirs \cup {AbsNames(OutputRepoDir)}
    /\ files \in ResolveFileSystems
    /\ InitRest

CallResolve ==
    /\ phase = "new"
    /\ \E source \in Sources : \E local_dir \in LocalDirs :
       \E parent_file \in Range(FindTerraformFiles(dirs, files, local_dir)) :
        call' = [fn |-> "resolve", source |-> source, parent_file |-> parent_file,
                 result |-> resolve_module_path(dirs, files, StrSource(source),
                                                parent_file).path]
    /\ phase' = "called"
    /\ UNCHANGED <<dirs, files, dependency_graph, trace, derived, builds, changes,
                   relevant, prompts, mods, request>>

NextResolve == CallResolve

SpecResolve == InitResolve /\ [][NextResolve]_vars

JoinedTo(parent_file, source) == NormPath(Join(DirName(parent_file), source))

\* the source is '.', '..' or starts with './' or '../': its first component
\* is '.' or '..'
DotPrefixed(source) == source[1] \in {".", ".."}

\* C4: for a source without './' or '../' prefix that is not '.' or '..',
\* resolve_module_path returns the path joined to the referencing file's
\* directory only if that path is an existing directory, and the source
\* unchanged in every other case (path missing, path a regular file, source
\* absolute, with a drive letter, or with '://').
C4_BareResolvesToDirectoryOnly ==
    (call.fn = "resolve" /\ ~DotPrefixed(call.source)) =>
        IF /\ ~StartsWithSlash(call.source)
           /\ ~HasDriveLetter(call.source)
           /\ ~ContainsScheme(call.source)
           /\ IsDir(dirs, files, JoinedTo(call.parent_file, call.source))
        THEN call.result = JoinedTo(call.parent_file, call.source)
        ELSE call.result = call.source

RECURSIVE CutInto(_, _, _)
\* items[from..] cut after each position of cuts
CutInto(items, cuts, from) ==
    IF from > Len(items) THEN <<>>
    ELSE LET later == {c \in cuts : c >= from}
             to == IF later = {} THEN Len(items)
                   ELSE CHOOSE c \in later : \A x \in later : c <= x
         IN  <<SubSeq(items, from, to)>> \o CutInto(items, cuts, to + 1)

Groupings(items) ==
    \* the ways of cutting a list of items into consecutive mappings
    {CutInto(items, cuts, 1) : cuts \in SUBSET (1..(Len(items) - 1))}

InitExtract ==
    /\ dirs = BaseDirs
    /\ files = WithFile(BaseFiles, MainTf, NoModules)
    /\ InitRest

CallExtract ==
    /\ phase = "new"
    /\ \E items \in ItemLists(MaxModules) : \E groups \in Groupings(items) :
        call' = [fn |-> "extract", items |-> items, groups |-> groups,
                 asDict |-> extract_module_dependencies(WithModule(DictModule(items))),
                 asList |-> extract_module_dependencies(WithModule(ListModule(groups)))]
    /\ phase' = "called"
    /\ UNCHANGED <<dirs, files, dependency_graph, trace, derived, builds, changes,
                   relevant, prompts, mods, request>>

NextExtract == CallExtract

SpecExtract == InitExtract /\ [][NextExtract]_vars

HasSource(item) == item.config.kind = "map" /\ item.config.hasSource

\* C6: extract_module_dependencies returns the same list of records (type
\* 'module', name, source; one per module block with a 'source', none for a
\* block without) for a mapping name -> config and for a list of mappings
\* carrying the same entries in the same order.
C6_DictAndListAgree ==
    call.fn = "extract" =>
        /\ call.asDict = call.asList
        /\ ~call.asList.raised =>
            LET with == SelectSeq(call.items, HasSource)
            IN  call.asList.deps =
                    [i \in 1..Len(with) |->
                        [type |-> "module", name |-> with[i].name,
                         source |-> with[i].config.source]]

C6_Witness ==
    /\ call.fn = "extract"
    /\ Len(call.groups) = 2
    /\ Len(call.asList.deps) = 1
    /\ ~HasSource(call.items[1])

(***************************************************************************)
(* terraform_modifier.py: identify_relevant_files.  The model's answer is  *)
(* an input: a failed call, a text that json.loads rejects (or an array    *)
(* with an element that is no string), a JSON array of paths, or a text    *)
(* without an array in which quoted strings stand.                         *)
(***************************************************************************)
RECURSIVE Walk(_, _, _)
\* os.walk(top): the directories below top, top first, each before its
\* subdirectories (hidden ones included)
Walk(d, f, top) ==
    IF ~IsDir(d, f, top) THEN <<>>
    ELSE LET names == ListDir(d, f, Lookup(d, f, top))
             subs == SelectSeq(names, LAMBDA n : IsDir(d, f, Append(top, n)))
         IN  <<top>> \o Concat([i \in 1..Len(subs) |-> Walk(d, f, Append(top, subs[i]))])

RECURSIVE ValidatePaths(_, _, _, _)
\* lines 161-186: the loop that validates the paths the model named
ValidatePaths(d, f, file_paths, valid_file_paths) ==
    IF file_paths = <<>> THEN valid_file_paths
    ELSE LET file_path == LStripSlash(Head(file_paths))
             full_path == Join(LocalDir, file_path)
             roots == SelectSeq(Walk(d, f, LocalDir),
                                LAMBDA root : IsFile(d, f, root \o BaseName(file_path)))
         IN  ValidatePaths(d, f, Tail(file_paths),
                 IF Exists(d, f, full_path) THEN Append(valid_file_paths, file_path)
                 ELSE IF roots # <<>>
                 THEN Append(valid_file_paths,
                             RelPath(Join(Head(roots), BaseName(file_path)), LocalDir))
                 ELSE valid_file_paths)

QuotedTfPaths(quoted) ==
    \* re.findall(r'"([^"]+\.tf)"', response_text): the quoted strings that
    \* end in '.tf'
    SelectSeq(quoted, LAMBDA q : Last(q) \in TfNames)

identify_relevant_files(d, f, g, response) ==
    IF response.kind \in {"error", "malformed"}
    THEN g.order        \* the except branch: every node of the graph
    ELSE ValidatePaths(d, f,
                       IF response.kind = "array" THEN response.paths
                       ELSE QuotedTfPaths(response.paths),
                       <<>>)

\* The paths a model answer may name.
NamedPaths ==
    {<<"main.tf">>, <<"", "mod", "x.tf">>, <<"wrong", "x.tf">>,
     <<"..", "ext", "e.tf">>, <<"mod">>, <<"nope.tf">>}

Responses ==
    {[kind |-> k, paths |-> <<>>] : k \in {"error", "malformed"}}
    \cup {[kind |-> k, paths |-> ps] :
            k \in {"array", "quoted"}, ps \in SeqsUpTo(NamedPaths, MaxPaths)}

(***************************************************************************)
(* modify_files.  A model answer is a text with or without a fenced code   *)
(* block, with or without prose before it; generate_content may also       *)
(* raise.  A mapping (dict) is its keys in insertion order and its values. *)
(***************************************************************************)
SetItem(m, k, v) ==
    \* m[k] = v
    [keys |-> IF k \in Range(m.keys) THEN m.keys ELSE Append(m.keys, k),
     val |-> (k :> v) @@ m.val]

\* A response text is a sequence of tokens: the fence of three backquotes,
\* a word, or a run of white space.
Fence == "fence"

FenceTags == {"terraform", "hcl"}       \* (?:terraform|hcl)?

WhiteSpace == {"\n"}                    \* \s

RECURSIVE SkipSpace(_, _)
\* \s* from position j on, greedy: the position after the white space
SkipSpace(text, j) ==
    IF j <= Len(text) /\ text[j] \in WhiteSpace THEN SkipSpace(text, j + 1) ELSE j

RECURSIVE RStripSpace(_)
\* what the lazy group keeps when \s* before the closing fence takes the
\* white space at its end
RStripSpace(text) ==
    IF text # <<>> /\ Last(text) \in WhiteSpace THEN RStripSpace(Front(text)) ELSE text

NoMatch == [matched |-> FALSE, group |-> <<>>]

MatchAtKeepTag(text, i) ==
    \* the pattern without (?:terraform|hcl)?
    LET j == SkipSpace(text, i + 1)
        closing == {c \in j..Len(text) : text[c] = Fence}
    IN  IF text[i] # Fence \/ closing = {} THEN NoMatch
        ELSE [matched |-> TRUE,
              group |-> RStripSpace(SubSeq(text, j,
                            (CHOOSE c \in closing : \A x \in closing : c <= x) - 1))]

MatchAt(text, i) ==
    \* the pattern  fence (?:terraform|hcl)? \s* ([\s\S]*?) \s* fence  tried at
    \* position i
    LET tagged == i + 1 <= Len(text) /\ text[i + 1] \in FenceTags
        j == SkipSpace(text, IF tagged THEN i + 2 ELSE i + 1)
        closing == {c \in j..Len(text) : text[c] = Fence}
    IN  IF text[i] # Fence \/ closing = {} THEN NoMatch
        ELSE [matched |-> TRUE,
              group |-> RStripSpace(SubSeq(text, j,
                            (CHOOSE c \in closing : \A x \in closing : c <= x) - 1))]

ExtractCodeBlock(text) ==
    \* lines 282-288: re.search takes the leftmost match; without a match
    \* modified_content stays response.text
    LET starts == {i \in 1..Len(text) : MatchAt(text, i).matched}
    IN  IF starts = {} THEN text
        ELSE MatchAt(text, CHOOSE i \in starts : \A x \in starts : i <= x).group

Prose == "Here is the modified file:"

Answer(lead, fenced, body) == [lead |-> lead, fenced |-> fenced, body |-> body]

AnswerText(answer) ==
    \* the tokens of an answer; "code" stands for answer.body
    (IF answer.lead = "" THEN <<>> ELSE <<"prose", "\n">>)
    \o (IF answer.fenced THEN <<Fence, "terraform", "\n", "code", "\n", Fence>>
        ELSE <<"code">>)

CodeBlock(answer) ==
    \* lines 284-291: the content stored for the file, as the content of a
    \* file: the body when exactly the code was extracted, prose otherwise
    IF ExtractCodeBlock(AnswerText(answer)) = <<"code">> THEN answer.body
    ELSE Unparseable(answer.lead)

AfterFailureNext(file_paths, i) == i + 1     \* a try around each path instead

\* lines 230, 293-294: the try encloses the loop, an exception ends it
AfterFailure(file_paths, i) == Len(file_paths) + 1

RECURSIVE ModifyLoop(_, _, _, _, _, _, _, _)
\* lines 235-291: the loop over file_paths; it ends early, inside the try,
\* when open() or generate_content raises.  failAt is the iteration in
\* which generate_content raises (0: in none).
ModifyLoop(d, f, modification_request, file_paths, i, failAt, answer, acc) ==
    IF i > Len(file_paths) THEN acc
    ELSE LET file_path == file_paths[i]
             full_path == Join(LocalDir, file_path)
         IN  IF ~IsFile(d, f, full_path)
             THEN ModifyLoop(d, f, modification_request, file_paths,
                             AfterFailure(file_paths, i), failAt, answer, acc)
             ELSE LET original_content == f[Lookup(d, f, full_path)]
                      sent == [acc EXCEPT !.prompts =
                                  Append(@, [file_path |-> file_path,
                                             content |-> original_content,
                                             request |-> modification_request])]
                  IN  IF i = failAt
                      THEN ModifyLoop(d, f, modification_request, file_paths,
                                      AfterFailure(file_paths, i), failAt, answer, sent)
                      ELSE ModifyLoop(d, f, modification_request, file_paths, i + 1,
                                      failAt, answer,
                                      [sent EXCEPT !.modifications =
                                          SetItem(@, file_path, CodeBlock(answer))])

modify_files(d, f, modification_request, file_paths, model_ok, failAt, answer) ==
    LET none == [prompts |-> <<>>, modifications |-> NoMods]
    IN  IF ~model_ok THEN none      \* GenerativeModel(...) raises
        ELSE ModifyLoop(d, f, modification_request, file_paths, 1, failAt, answer, none)

(***************************************************************************)
(* apply_modifications                                                     *)
(***************************************************************************)
RECURSIVE MakeDirsFrom(_, _, _, _)
\* os.makedirs(name, exist_ok=True), component by component from cur: the
\* directories afterwards, or raised when a component is a regular file
MakeDirsFrom(d, f, cur, comps) ==
    IF comps = <<>> THEN [raised |-> FALSE, dirs |-> d]
    ELSE LET c == Head(comps)
             next == Append(cur, c)
         IN  IF c \in {"", "."} THEN MakeDirsFrom(d, f, cur, Tail(comps))
             ELSE IF c = ".."
             THEN MakeDirsFrom(d, f, IF cur = <<>> THEN cur ELSE Front(cur), Tail(comps))
             ELSE IF next \in DOMAIN f THEN [raised |-> TRUE, dirs |-> d]
             ELSE MakeDirsFrom(d \cup {next}, f, next, Tail(comps))

MakeDirs(d, f, name) ==
    IF name = <<"">> THEN [raised |-> TRUE, dirs |-> d]
    ELSE IF StartsWithSlash(name) THEN MakeDirsFrom(d, f, <<>>, Tail(name))
    ELSE MakeDirsFrom(d, f, Cwd, name)

RECURSIVE ApplyLoop(_, _, _, _)
\* lines 311-329: the loop over modifications.items(); st is the file
\* system so far, the list of written paths, and whether makedirs raised
ApplyLoop(st, modifications, i, dry_run) ==
    IF i > Len(modifications.keys) \/ st.raised THEN st
    ELSE LET file_path == modifications.keys[i]
             full_path == Join(LocalDir, file_path)
             made == MakeDirs(st.dirs, st.files, DirName(full_path))
             parent == Lookup(made.dirs, st.files, DirName(full_path))
             name == Last(full_path)
             target == Append(parent, name)
             writable == /\ name \notin {"", ".", ".."}
                         /\ target \notin made.dirs
         IN  IF made.raised THEN [st EXCEPT !.raised = TRUE]
             ELSE ApplyLoop(
                    IF dry_run \/ ~writable THEN [st EXCEPT !.dirs = made.dirs]
                    ELSE [st EXCEPT !.dirs = made.dirs,
                                    !.files = (target :> modifications.val[file_path]) @@ @,
                                    !.modified_files = Append(@, file_path)],
                    modifications, i + 1, dry_run)

apply_modifications(d, f, modifications, dry_run) ==
    ApplyLoop([dirs |-> d, files |-> f, modified_files |-> <<>>, raised |-> FALSE],
              modifications, 1, dry_run)

(***************************************************************************)
(* Spec: the modifier's pipeline on one analyzer: build the graph, ask     *)
(* the model for the relevant files, generate the modifications, write     *)
(* them, and build again on the changed working copy.                      *)
(***************************************************************************)
TwoModules ==
    WithModule(DictModule(<<Item("a", MapConfig(StrSource(<<".", "mod">>))),
                            Item("b", MapConfig(StrSource(<<"..", "ext">>)))>>))

OneModule ==
    WithModule(DictModule(<<Item("b", MapConfig(StrSource(<<"..", "ext">>)))>>))

PipelineContents == {TwoModules, OneModule, NoModules}

Requests == {"add tags"}

Answers ==
    {Answer(lead, fenced, body) :
        lead \in {"", Prose}, fenced \in BOOLEAN, body \in {OneModule, NoModules}}

Init ==
    /\ dirs = BaseDirs
    /\ files \in {WithFile(BaseFiles, MainTf, c) : c \in PipelineContents}
    /\ InitRest

\* modifier.identify_relevant_files(request)
Identify ==
    /\ phase = "built"
    /\ changes = 0         \* main(): one pass of the pipeline
    /\ \E modification_request \in Requests : \E response \in Responses :
        /\ relevant' = identify_relevant_files(dirs, files, dependency_graph, response)
        /\ call' = [fn |-> "identify", request |-> modification_request,
                    kind |-> response.kind]
    /\ phase' = "identified"
    /\ UNCHANGED <<dirs, files, dependency_graph, trace, derived, builds, changes,
                   prompts, mods, request>>

HasRelevantFilesAlways(relevant_files) == TRUE    \* without the return of line 416

\* lines 414-416: if not relevant_files: return
HasRelevantFiles(relevant_files) == relevant_files # <<>>

\* lines 422-424: if not modifications: return
HasModifications(modifications) == modifications.keys # <<>>

\* modifier.modify_files(request, relevant_files); main() calls it only with
\* a non-empty list
ModifyFiles ==
    /\ phase = "identified"
    /\ HasRelevantFiles(relevant)
    /\ \E model_ok \in BOOLEAN : \E failAt \in 0..Len(relevant) : \E answer \in Answers :
       \E out \in {modify_files(dirs, files, call.request, relevant,
                                model_ok, failAt, answer)} :
        /\ prompts' = out.prompts
        /\ mods' = out.modifications
    /\ request' = [modification_request |-> call.request, file_paths |-> relevant]
    /\ phase' = "modified"
    /\ UNCHANGED <<dirs, files, dependency_graph, trace, derived, builds, changes,
                   call, relevant>>

\* modifier.apply_modifications(modifications, dry_run); main() calls it only
\* with a non-empty mapping
ApplyModifications ==
    /\ phase = "modified"
    /\ HasModifications(mods)
    /\ \E dry_run \in BOOLEAN :
       \E out \in {apply_modifications(dirs, files, mods, dry_run)} :
        /\ dirs' = out.dirs
        /\ files' = out.files
        /\ call' = [fn |-> "apply", dry_run |-> dry_run, modifications |-> mods,
                    before |-> [dirs |-> dirs, files |-> files],
                    modified_files |-> out.modified_files, raised |-> out.raised]
    /\ changes' = changes + 1
    /\ phase' = "applied"
    /\ UNCHANGED <<dependency_graph, trace, derived, builds, relevant, prompts,
                   mods, request>>

Next == Build \/ Identify \/ ModifyFiles \/ ApplyModifications

Spec == Init /\ [][Next]_vars

\* C8: after any sequence of build_dependency_graph runs on one analyzer,
\* interleaved with changes to the files of the working copy, the targets of
\* the outgoing edges of each file are exactly those derived from the file's
\* most recent successful parse; an edge only an earlier parse produced is
\* absent.
C8_EdgesFromLastParse ==
    (phase = "built" /\ ~trace.raised) =>
        \A n \in DOMAIN derived :
            {e[2] : e \in OutEdges(dependency_graph, n)} = {x[1] : x \in derived[n]}

\* C9: every path identify_relevant_files returns names a regular file that
\* exists in the working copy below local_dir when the method returns,
\* whatever the model answered.
C9_RelevantFilesExist ==
    phase = "identified" =>
        \A i \in 1..Len(relevant) :
            /\ IsFile(dirs, files, LocalDir \o relevant[i])
            /\ Inside(relevant[i], LocalDir)

\* C10: modify_files sends the model exactly one prompt for each path of
\* file_paths, in order, carrying that file's current content and the
\* modification request, and the mapping it returns has an entry for every
\* path of file_paths.
C10_OnePromptAndEntryPerPath ==
    phase = "modified" =>
        /\ Len(prompts) = Len(request.file_paths)
        /\ \A i \in 1..Len(prompts) :
            /\ prompts[i].file_path = request.file_paths[i]
            /\ prompts[i].request = request.modification_request
            /\ IsFile(dirs, files, LocalDir \o prompts[i].file_path)
            /\ prompts[i].content =
                   files[Lookup(dirs, files, LocalDir \o prompts[i].file_path)]
        /\ Range(request.file_paths) \subseteq Range(mods.keys)

\* C24: the modifier's main runs analysis, relevance selection, generation
\* and writing in that order; modify_files is called only after
\* identify_relevant_files returned a non-empty list, apply_modifications only
\* after modify_files returned a non-empty mapping, and no other step changes
\* a file or directory.
C24_StepsInOrderAndGuarded ==
    [][/\ phase' = "identified" => phase = "built"
       /\ phase' = "modified" => (phase = "identified" /\ relevant # <<>>)
       /\ phase' = "applied" => (phase = "modified" /\ mods.keys # <<>>)
       /\ (files' # files \/ dirs' # dirs) => phase' = "applied"]_vars

C24_Witness ==
    /\ phase = "modified"
    /\ relevant # <<>>
    /\ mods.keys = <<>>
    /\ Len(prompts) >= 1

\* C28: every file apply_modifications writes lies inside local_dir, for
\* every mapping identify_relevant_files and modify_files can produce from a
\* model response, responses naming paths with '..' components or a leading
\* '/' included.
C28_WritesInsideLocalDir ==
    (phase = "applied" /\ ~call.dry_run) =>
        /\ \A i \in 1..Len(call.modified_files) :
                Inside(call.modified_files[i], LocalDir)
        /\ \A a \in DOMAIN files :
                (a \notin DOMAIN call.before.files \/ files[a] # call.before.files[a])
                    => (IsPrefix(Repo, a) /\ a # Repo)

\* C29: every path identify_relevant_files returns is a node of the
\* dependency graph, whatever the model answered; the search by base name
\* that replaces a wrongly named path returns no file outside the graph.
C29_RelevantFilesAreNodes ==
    phase = "identified" =>
        \A i \in 1..Len(relevant) : relevant[i] \in Nodes(dependency_graph)

(***************************************************************************)
(* SpecCodeBlock: the code block extraction of modify_files applied to     *)
(* every response text of up to MaxTokens tokens.                          *)
(***************************************************************************)
TextTokens == {Fence, "terraform", "hcl", "\n", "code", "tf"}

InitCodeBlock ==
    /\ dirs = BaseDirs
    /\ files = WithFile(BaseFiles, MainTf, NoModules)
    /\ InitRest

CallCodeBlock ==
    /\ phase = "new"
    /\ \E text \in SeqsUpTo(TextTokens, MaxTokens) :
        call' = [fn |-> "code_block", text |-> text,
                 modified_content |-> ExtractCodeBlock(text)]
    /\ phase' = "called"
    /\ UNCHANGED <<dirs, files, dependency_graph, trace, derived, builds, changes,
                   relevant, prompts, mods, request>>

NextCodeBlock == CallCodeBlock

SpecCodeBlock == InitCodeBlock /\ [][NextCodeBlock]_vars

FencesOf(text) == {i \in 1..Len(text) : text[i] = "fence"}

Trimmed(text) ==
    \* text without the white space at its two ends
    LET solid == {k \in 1..Len(text) : text[k] # "\n"}
    IN  IF solid = {} THEN <<>>
        ELSE SubSeq(text, CHOOSE k \in solid : \A x \in solid : k <= x,
                          CHOOSE k \in solid : \A x \in solid : k >= x)

FirstBlockInterior(text) ==
    \* what stands between the first two fences, without the tag that
    \* directly follows the opening fence and without surrounding white space
    LET open == CHOOSE i \in FencesOf(text) : \A x \in FencesOf(text) : i <= x
        rest == FencesOf(text) \ {open}
        close == CHOOSE i \in rest : \A x \in rest : i <= x
        inner == SubSeq(text, open + 1, close - 1)
    IN  Trimmed(IF inner # <<>> /\ inner[1] \in {"terraform", "hcl"}
                THEN Tail(inner) ELSE inner)

\* C11: the content modify_files stores is the interior of the first fenced
\* code block of the response (fence optionally tagged 'terraform' or 'hcl',
\* surrounding white space removed) when the response contains a fenced
\* block, and the whole response text unchanged when it contains none.
C11_FirstBlockOrWholeText ==
    call.fn = "code_block" =>
        IF Cardinality(FencesOf(call.text)) >= 2
        THEN call.modified_content = FirstBlockInterior(call.text)
        ELSE call.modified_content = call.text

C11_Witness ==
    /\ call.fn = "code_block"
    /\ call.text = <<"fence", "terraform", "\n", "code", "fence">>
    /\ call.modified_content = <<"code">>

(***************************************************************************)
(* SpecApply: apply_modifications called with any mapping of up to         *)
(* MaxPaths entries, with and without dry_run.                             *)
(***************************************************************************)
\* The keys a mapping may have: an existing file, a new file in an existing
\* directory, a file in a directory that does not exist yet, a directory, a
\* path through a regular file, and a path that leaves local_dir.
MappingPaths ==
    {<<"main.tf">>, <<"mod", "new.tf">>, <<"new", "new.tf">>, <<"mod">>,
     <<"plain", "x.tf">>, <<"..", "ext", "e.tf">>}

WrittenContents == {NoModules, Unparseable(Prose)}

MappingOf(ks, v) == [keys |-> ks, val |-> [k \in Range(ks) |-> v[k]]]

InitApply ==
    /\ dirs = BaseDirs
    /\ files = WithFile(BaseFiles, MainTf, OneModule)
    /\ InitRest

CallApply ==
    /\ phase = "new"
    /\ \E ks \in {k \in SeqsUpTo(MappingPaths, MaxPaths) : NoDup(k)} :
       \E v \in [Range(ks) -> WrittenContents] : \E dry_run \in BOOLEAN :
       \E out \in {apply_modifications(dirs, files, MappingOf(ks, v), dry_run)} :
        /\ dirs' = out.dirs
        /\ files' = out.files
        /\ call' = [fn |-> "apply", dry_run |-> dry_run,
                    modifications |-> MappingOf(ks, v),
                    before |-> [dirs |-> dirs, files |-> files],
                    modified_files |-> out.modified_files, raised |-> out.raised]
    /\ phase' = "called"
    /\ UNCHANGED <<dependency_graph, trace, derived, builds, changes,
                   relevant, prompts, mods, request>>

NextApply == CallApply

SpecApply == InitApply /\ [][NextApply]_vars

\* C12: apply_modifications called with dry_run=True leaves the file system
\* unchanged for every mapping: it writes or creates no file and creates no
\* directory.
C12_DryRunChangesNothing ==
    (call.fn = "apply" /\ call.dry_run) =>
        /\ dirs = call.before.dirs
        /\ files = call.before.files

\* the write of the entry succeeded: afterwards its path names a regular file
\* that holds the entry's content
WriteSucceeded(d, f, modifications, file_path) ==
    /\ IsFile(d, f, Join(LocalDir, file_path))
    /\ f[Lookup(d, f, Join(LocalDir, file_path))] = modifications.val[file_path]

\* C18: apply_modifications with dry_run=False attempts to write every entry
\* of the mapping, and a failed write does not stop the remaining writes or
\* raise: it returns, and the list it returns holds exactly the paths whose
\* write succeeded, in mapping order.
C18_ReturnsSuccessfulWrites ==
    (call.fn = "apply" /\ ~call.dry_run) =>
        /\ ~call.raised
        /\ call.modified_files =
              SelectSeq(call.modifications.keys,
                        LAMBDA k : WriteSucceeded(dirs, files, call.modifications, k))

(***************************************************************************)
(* SpecModify: modify_files on every list of up to MaxPaths paths, with    *)
(* the model failing to initialise, failing at one call, or answering.     *)
(***************************************************************************)
ModifyPaths == {<<"main.tf">>, <<"mod", "x.tf">>, <<"mod">>, <<"nope.tf">>}

InitModify ==
    /\ dirs = BaseDirs
    /\ files = WithFile(BaseFiles, MainTf, OneModule)
    /\ InitRest

CallModify ==
    /\ phase = "new"
    /\ \E file_paths \in SeqsUpTo(ModifyPaths, MaxPaths) :
       \E model_ok \in BOOLEAN : \E failAt \in 0..Len(file_paths) :
       \E answer \in Answers : \E modification_request \in Requests :
       \E out \in {modify_files(dirs, files, modification_request, file_paths,
                                model_ok, failAt, answer)} :
        /\ prompts' = out.prompts
        /\ mods' = out.modifications
        /\ request' = [modification_request |-> modification_request,
                       file_paths |-> file_paths]
        /\ call' = [fn |-> "modify_files", model_ok |-> model_ok, failAt |-> failAt,
                    before |-> [dirs |-> dirs, files |-> files]]
    /\ phase' = "called"
    /\ UNCHANGED <<dirs, files, dependency_graph, trace, derived, builds, changes,
                   relevant>>

NextModify == CallModify

SpecModify == InitModify /\ [][NextModify]_vars

\* The positions of file_paths at which the read or the model call fails.
FailingPositions ==
    {i \in 1..Len(request.file_paths) :
        \/ ~IsFile(call.before.dirs, call.before.files, LocalDir \o request.file_paths[i])
        \/ i = call.failAt}

FirstFailure == CHOOSE i \in FailingPositions : \A j \in FailingPositions : i <= j

SomePathFails ==
    call.fn = "modify_files" /\ call.model_ok /\ FailingPositions # {}

\* C19 as stated: when reading a file or the model call fails for some path,
\* modify_files writes nothing to disk and returns the modifications of the
\* paths before the failure, with no entry for the failing path or any path
\* after it.
C19_NoEntryFromFailureOn ==
    SomePathFails =>
        /\ dirs = call.before.dirs /\ files = call.before.files
        /\ \A i \in 1..Len(request.file_paths) :
              request.file_paths[i] \in Range(mods.keys) <=> i < FirstFailure

\* C19, amended: when reading a file or the model call fails at some position
\* of file_paths, modify_files writes nothing to disk and returns entries for
\* exactly the paths that stand before that position; a later path, the
\* failing one included, has an entry only if it also stands before it.
C19_EntriesOfPositionsBeforeFailure ==
    SomePathFails =>
        /\ dirs = call.before.dirs /\ files = call.before.files
        /\ Range(mods.keys) = {request.file_paths[i] : i \in 1..(FirstFailure - 1)}
        /\ NoDup(mods.keys)
        /\ Len(prompts) \in {FirstFailure - 1, FirstFailure}

C19_Witness ==
    /\ SomePathFails
    /\ FirstFailure = 2
    /\ call.failAt = 2
    /\ Len(mods.keys) = 1
    /\ Len(prompts) = 2

----------------------------------------------------------------------------
\* GitHub URL cleaning.  A URL is the sequence of the pieces between its
\* slashes: "https://github.com/o/r/" is <<"https:", "", "github.com", "o",
\* "r", "">>.  A piece never holds a slash and may be empty.

MaxSegs == 4

GitSuffixed == {"r.git", ".git"}

\* url.endswith('.git') looks at the last piece; url[:-4] shortens it.
StripGit(piece) == IF piece = "r.git" THEN "r" ELSE ""

\* 'github.com' in url
HasGithub(url) == \E i \in 1..Len(url) : url[i] = "github.com"

\* re.sub(r'/<kw>/[^/]+/?$', '', url): a piece kw that follows a slash, then one
\* non-empty piece, then at most one slash, then the end of the string.
SubTail(kw, url) ==
    LET n == Len(url)
        at == {i \in 2..n : /\ url[i] = kw
                            /\ i + 1 <= n
                            /\ url[i + 1] # ""
                            /\ \/ i + 1 = n
                               \/ i + 2 = n /\ url[n] = ""}
    IN  IF at = {} THEN url
        ELSE SubSeq(url, 1, (CHOOSE i \in at : \A j \in at : i <= j) - 1)

\* re.sub(r'/<kw>/[^/]+/', '/', url) from piece i on: the matches are taken
\* left to right and do not overlap; a match ends with the slash that precedes
\* piece i + 2, so that piece cannot open the next match (slash = FALSE).
RECURSIVE SubMidFrom(_, _, _, _)
SubMidFrom(kw, url, i, slash) ==
    IF i > Len(url) THEN <<>>
    ELSE IF slash /\ url[i] = kw /\ i + 2 <= Len(url) /\ url[i + 1] # ""
         THEN SubMidFrom(kw, url, i + 2, FALSE)
         ELSE <<url[i]>> \o SubMidFrom(kw, url, i + 1, TRUE)

SubMid(kw, url) == SubMidFrom(kw, url, 1, FALSE)

\* url.rstrip('/')
RECURSIVE RStripSlash(_)
RStripSlash(url) ==
    IF Len(url) > 1 /\ Last(url) = "" THEN RStripSlash(Front(url)) ELSE url

DropGit(url) ==
    IF HasGithub(url) /\ Last(url) \in GitSuffixed
    THEN Front(url) \o <<StripGit(Last(url))>>
    ELSE url

_clean_github_url(url) ==
    RStripSlash(DropGit(SubMid("blob", SubTail("blob",
                        SubMid("tree", SubTail("tree", url))))))

\* The dashboard's copy has the same body.
clean_github_url(url) ==
    RStripSlash(DropGit(SubMid("blob", SubTail("blob",
                        SubMid("tree", SubTail("tree", url))))))

\* Universe of URLs: a repository address on GitHub or on another host,
\* followed by up to MaxSegs further pieces.
Hosts == {"github.com", "git.example"}

BaseUrl(host) == <<"https:", "", host, "o", "r">>

UrlPieces == {"", "tree", "blob", "b", "p", "r.git"}

Urls == {BaseUrl(h) \o t : h \in Hosts, t \in SeqsUpTo(UrlPieces, MaxSegs)}

InitClean ==
    /\ dirs = BaseDirs
    /\ files = BaseFiles
    /\ InitRest

CallCleanAnalyzer ==
    /\ phase = "new"
    /\ \E url \in Urls :
        call' = [fn |-> "_clean_github_url", url |-> url,
                 cleaned |-> _clean_github_url(url)]
    /\ phase' = "called"
    /\ UNCHANGED <<dirs, files, dependency_graph, trace, derived, builds,
                   changes, relevant, prompts, mods, request>>

CallCleanDashboard ==
    /\ phase = "new"
    /\ \E url \in Urls :
        call' = [fn |-> "clean_github_url", url |-> url,
                 cleaned |-> clean_github_url(url)]
    /\ phase' = "called"
    /\ UNCHANGED <<dirs, files, dependency_graph, trace, derived, builds,
                   changes, relevant, prompts, mods, request>>

NextClean == CallCleanAnalyzer \/ CallCleanDashboard

SpecClean == InitClean /\ [][NextClean]_vars

Cleaned == call.fn \in {"_clean_github_url", "clean_github_url"}

\* A '/<kw>/<segment>' part of a URL: the piece kw after a slash, followed by
\* a non-empty piece.
HasUiSegment(kw, url) ==
    \E i \in 2..(Len(url) - 1) : url[i] = kw /\ url[i + 1] # ""

\* C13: for every input URL, the URL returned by _clean_github_url and by the
\* dashboard's clean_github_url contains no '/tree/<segment>' and no
\* '/blob/<segment>' part.
C13_NoTreeOrBlobSegment ==
    Cleaned => /\ ~HasUiSegment("tree", call.cleaned)
               /\ ~HasUiSegment("blob", call.cleaned)

\* The four forms of address of a repository B = https://github.com/o/r:
\* B, B/tree/<branch>, B/tree/<branch>/<path>, B/blob/<branch>/<path>.
IsPath(p) == Len(p) >= 1 /\ \A i \in 1..Len(p) : p[i] # ""

AddressOfRepo(url) ==
    LET B == BaseUrl("github.com")
        n == Len(url)
    IN  /\ n >= Len(B)
        /\ SubSeq(url, 1, Len(B)) = B
        /\ \/ n = Len(B)
           \/ /\ n >= Len(B) + 2
              /\ url[Len(B) + 1] \in {"tree", "blob"}
              /\ IsPath(SubSeq(url, Len(B) + 2, n))
              /\ url[Len(B) + 1] = "blob" => n >= Len(B) + 3

\* C14: cleaning each of B, B/tree/<branch>, B/tree/<branch>/<path> and
\* B/blob/<branch>/<path> returns B, for every branch and path.
C14_WebAddressesCleanToBase ==
    (Cleaned /\ AddressOfRepo(call.url)) => call.cleaned = BaseUrl("github.com")

\* the URL, as a string, ends with '/': its last piece is empty and is not
\* the only one
EndsWithSlash(url) == Len(url) > 1 /\ Last(url) = ""

\* C21: for every input URL, the cleaned URL does not end with '/', and when
\* it contains 'github.com' it does not end with '.git'.
C21_NoTrailingSlashOrGit ==
    Cleaned =>
        /\ ~EndsWithSlash(call.cleaned)
        /\ (\E i \in 1..Len(call.cleaned) : call.cleaned[i] = "github.com") =>
              Last(call.cleaned) \notin {"r.git", ".git"}

\* C27: URL cleaning is idempotent: cleaning the cleaned URL again returns the
\* cleaned URL, for the analyzer's function and for the dashboard's.
C27_CleaningIdempotent ==
    Cleaned =>
        /\ _clean_github_url(call.cleaned) = call.cleaned
        /\ clean_github_url(call.cleaned) = call.cleaned

(***************************************************************************)
(* clone_repository.  The remote repository is the tree git checks out:    *)
(* its directories and files, as paths from the top of the working copy.   *)
(* Every call of the git library can raise; fail names the call that does  *)
(* ("none": no call raises).  ops lists the calls the method made.         *)
(***************************************************************************)
MaxClones == 1

Tree(ds, fs) == [dirs |-> ds, files |-> fs]

FullTree ==
    Tree({<<"mod">>}, (<<"main.tf">> :> OneModule) @@ (<<"mod", "x.tf">> :> NoModules)
                      @@ (<<"mod", "v.tf">> :> Unparseable("hcl")))

SmallTree == Tree({}, (<<"main.tf">> :> NoModules))

BareTree == Tree({}, [p \in {} |-> NoModules])

RemoteTrees == {FullTree, SmallTree, BareTree}

GitCalls == {"clone_from", "Repo", "fetch", "pull"}

\* shutil.rmtree(local_dir): the directory and all below it
RmTree(d, f, top) ==
    [dirs |-> {a \in d : ~IsPrefix(top, a)},
     files |-> [a \in {b \in DOMAIN f : ~IsPrefix(top, b)} |-> f[a]]]

\* the working copy git leaves at top: the tree and the .git directory with
\* what it held before
CheckOut(d, f, top, tree) ==
    LET gone == RmTree(d, f, top)
        kept == {a \in d : IsPrefix(Append(top, ".git"), a)}
        keptFiles == {a \in DOMAIN f : IsPrefix(Append(top, ".git"), a)}
    IN  [dirs |-> gone.dirs \cup kept \cup {SubSeq(top, 1, k) : k \in 0..Len(top)}
                    \cup {Append(top, ".git")} \cup {top \o a : a \in tree.dirs},
         files |-> [a \in DOMAIN gone.files \cup keptFiles
                             \cup {top \o b : b \in DOMAIN tree.files} |->
                      IF a \in keptFiles \/ ~IsPrefix(top, a) THEN f[a]
                      ELSE tree.files[SubSeq(a, Len(top) + 1, Len(a))]]]

\* The analyzer's repo_url and branch (main: --branch defaults to master),
\* and another repository and branch a working copy can be of.
RepoUrl == "https://github.com/o/r"

Branch == "master"

OtherUrl == "https://github.com/o/other"

OtherBranch == "dev"

\* .git/config of a working copy: the remote origin and the branch checked out
GitConfig(url, branch) ==
    [text |-> "git config", parses |-> FALSE, keys |-> {}, module |-> OtherModule,
     origin |-> url, branch |-> branch]

GitConfigPath(top) == top \o <<".git", "config">>

\* Repo.clone_from(self.repo_url, self.local_dir, branch=self.branch)
CloneFrom(d, f, top, tree) ==
    LET new == CheckOut(d, f, top, tree)
    IN  [dirs |-> new.dirs,
         files |-> WithFile(new.files, GitConfigPath(top), GitConfig(RepoUrl, Branch))]

CloneResult(d, f, ops, raised) == [dirs |-> d, files |-> f, ops |-> ops, raised |-> raised]

VerifyClonedNever(d, f, ops) ==          \* without the test of lines 92-93
    CloneResult(d, f, Append(ops, "listdir"), FALSE)

\* lines 89-93: the directory must hold more than one entry
VerifyCloned(d, f, ops) ==
    LET listed == Append(ops, "listdir")
    IN  IF ~IsDir(d, f, LocalDir) THEN CloneResult(d, f, listed, TRUE)
        ELSE CloneResult(d, f, listed, Len(ListDir(d, f, Lookup(d, f, LocalDir))) <= 1)

HasGitEntryNever(d, f) == FALSE         \* the test of line 70 always true

\* line 70: os.path.exists(os.path.join(self.local_dir, '.git'))
HasGitEntry(d, f) == Exists(d, f, Join(LocalDir, <<".git">>))

clone_repository(d, f, tree, fail) ==
    LET top == AbsNames(LocalDir)
    IN  IF Exists(d, f, LocalDir)
        THEN IF ~HasGitEntry(d, f)
             THEN \* lines 70-75
                  IF ~IsDir(d, f, LocalDir)
                  THEN CloneResult(d, f, <<"rmtree">>, TRUE)
                  ELSE LET gone == RmTree(d, f, top)
                           new == CloneFrom(gone.dirs, gone.files, top, tree)
                       IN  IF fail = "clone_from"
                           THEN CloneResult(gone.dirs, gone.files,
                                            <<"rmtree", "clone_from">>, TRUE)
                           ELSE VerifyCloned(new.dirs, new.files,
                                             <<"rmtree", "clone_from">>)
             ELSE \* lines 77-83
                  LET new == CheckOut(d, f, top, tree)
                  IN  IF fail = "Repo" \/ GitConfigPath(top) \notin DOMAIN f
                      THEN CloneResult(d, f, <<"Repo">>, TRUE)   \* no repository
                      ELSE IF fail = "fetch"
                      THEN CloneResult(d, f, <<"Repo", "fetch">>, TRUE)
                      ELSE IF fail = "pull"
                      THEN CloneResult(d, f, <<"Repo", "fetch", "pull">>, TRUE)
                      ELSE VerifyCloned(new.dirs, new.files, <<"Repo", "fetch", "pull">>)
        ELSE \* lines 84-87
             LET new == CloneFrom(d, f, top, tree)
             IN  IF fail = "clone_from" THEN CloneResult(d, f, <<"clone_from">>, TRUE)
                 ELSE VerifyCloned(new.dirs, new.files, <<"clone_from">>)

(***************************************************************************)
(* generate_file_descriptions.  A reply of the model is a text, as a       *)
(* sequence of words and white space, or an exception.  replies are the    *)
(* replies to the first calls of a run, the later calls get Summary.       *)
(* A description is the sequence of words stored; the empty sequence is    *)
(* the empty string.                                                       *)
(***************************************************************************)
MaxReplies == 1

MaxRuns == 2

DefaultDescription == <<"Terraform configuration file">>

Reply(raises, text) == [raises |-> raises, text |-> text]

Summary == Reply(FALSE, <<"\n", "summary", "\n">>)

Replies == {Summary, Reply(FALSE, <<"\n">>), Reply(TRUE, <<>>)}

\* text.strip()
Strip(text) == RStripSpace(SubSeq(text, SkipSpace(text, 1), Len(text)))

\* nodes[node].get('description'): None when the node has no such attribute
GetDescription(g, node) ==
    IF "description" \in DOMAIN g.attrs[node] THEN g.attrs[node]["description"]
    ELSE <<>>

SetDescription(g, node, description) ==
    [g EXCEPT !.attrs[node] = ("description" :> description) @@ @]

AlreadyDescribedNever(g, node) == FALSE      \* without the test of line 375

\* line 375: if self.dependency_graph.nodes[node].get('description')
AlreadyDescribed(g, node) == GetDescription(g, node) # <<>>

RECURSIVE DescribeLoop(_, _, _, _, _, _)
\* lines 373-409: the loop over the nodes; st is the graph and the nodes the
\* model was called for so far
DescribeLoop(d, f, st, order, i, replies) ==
    IF i > Len(order) THEN st
    ELSE LET node == order[i]
             file_path == Join(LocalDir, node)
             n == Len(st.calls) + 1
             reply == IF n <= Len(replies) THEN replies[n] ELSE Summary
             called == [st EXCEPT !.calls = Append(@, node)]
         IN  IF AlreadyDescribed(st.g, node)
             THEN DescribeLoop(d, f, st, order, i + 1, replies)
             ELSE IF ~IsFile(d, f, file_path)         \* open() raises
             THEN DescribeLoop(d, f,
                      [st EXCEPT !.g = SetDescription(@, node, DefaultDescription)],
                      order, i + 1, replies)
             ELSE IF reply.raises
             THEN DescribeLoop(d, f,
                      [called EXCEPT !.g = SetDescription(@, node, DefaultDescription)],
                      order, i + 1, replies)
             ELSE DescribeLoop(d, f,
                      [called EXCEPT !.g = SetDescription(@, node, Strip(reply.text))],
                      order, i + 1, replies)

RECURSIVE DefaultLoop(_, _, _)
\* lines 411-416: the model could not be initialised
DefaultLoop(g, order, i) ==
    IF i > Len(order) THEN g
    ELSE DefaultLoop(IF GetDescription(g, order[i]) # <<>> THEN g
                     ELSE SetDescription(g, order[i], DefaultDescription),
                     order, i + 1)

generate_file_descriptions(d, f, g, init_ok, replies) ==
    IF init_ok
    THEN DescribeLoop(d, f, [g |-> g, calls |-> <<>>], g.order, 1, replies)
    ELSE [g |-> DefaultLoop(g, g.order, 1), calls |-> <<>>]

\* analyzer.generate_file_descriptions()
Describe ==
    /\ \/ phase = "built"
       \/ phase = "described" /\ call.run < MaxRuns
    /\ \E replies \in SeqsUpTo(Replies, MaxReplies) :
       \E init_ok \in (IF replies = <<>> THEN BOOLEAN ELSE {TRUE}) :
       \E out \in {generate_file_descriptions(dirs, files, dependency_graph,
                                              init_ok, replies)} :
        /\ dependency_graph' = out.g
        /\ call' = [fn |-> "generate_file_descriptions",
                    run |-> IF phase = "described" THEN call.run + 1 ELSE 1,
                    before |-> dependency_graph, init_ok |-> init_ok,
                    replies |-> replies, calls |-> out.calls]
    /\ phase' = "described"
    /\ UNCHANGED <<dirs, files, trace, derived, builds, changes, relevant,
                   prompts, mods, request>>

(***************************************************************************)
(* SpecAnalyze: analyze_repository and its three steps on one analyzer:    *)
(* clone or update the working copy (up to MaxClones times), build the     *)
(* graph, describe the nodes; the steps can be repeated on the same        *)
(* analyzer.  At first local_dir is absent, a plain directory, a working   *)
(* copy, an empty directory or a regular file.                             *)
(***************************************************************************)
Absent == RmTree(BaseDirs, BaseFiles, Repo)

LocalDirStates ==
    {[dirs |-> Absent.dirs, files |-> Absent.files],
     [dirs |-> BaseDirs, files |-> BaseFiles],
     [dirs |-> BaseDirs \cup {Append(Repo, ".git")}, files |-> BaseFiles]}
    \cup {[dirs |-> BaseDirs \cup {Append(Repo, ".git")},
           files |-> WithFile(BaseFiles, GitConfigPath(Repo), GitConfig(url, branch))] :
              url \in {RepoUrl, OtherUrl}, branch \in {Branch, OtherBranch}}
    \cup {
     [dirs |-> Absent.dirs \cup {Repo}, files |-> Absent.files],
     [dirs |-> Absent.dirs, files |-> WithFile(Absent.files, Repo, Unparseable("text"))]}

InitAnalyze ==
    /\ \E fs \in LocalDirStates : dirs = fs.dirs /\ files = fs.files
    /\ InitRest

\* analyzer.clone_repository()
CloneRepository ==
    /\ phase \in {"new", "built", "described", "failed"}
    /\ changes < MaxClones
    /\ \E tree \in RemoteTrees : \E fail \in GitCalls \cup {"none"} :
       \E out \in {clone_repository(dirs, files, tree, fail)} :
        /\ dirs' = out.dirs
        /\ files' = out.files
        /\ call' = [fn |-> "clone_repository",
                    before |-> [dirs |-> dirs, files |-> files],
                    fail |-> fail, ops |-> out.ops, raised |-> out.raised]
        /\ phase' = IF out.raised THEN "failed" ELSE "new"
    /\ changes' = changes + 1
    /\ UNCHANGED <<dependency_graph, trace, derived, builds, relevant, prompts,
                   mods, request>>

NextAnalyze == CloneRepository \/ Build \/ Describe

SpecAnalyze == InitAnalyze /\ [][NextAnalyze]_vars

\* The route the state of local_dir calls for, in the words of the claim.
Route(d, f) ==
    IF ~Exists(d, f, LocalDir) THEN <<"clone_from">>
    ELSE IF ~Exists(d, f, LocalDir \o <<".git">>) THEN <<"rmtree", "clone_from">>
    ELSE <<"fetch", "pull">>

RouteCalls == {"rmtree", "clone_from", "fetch", "pull"}

Taken(ops) == SelectSeq(ops, LAMBDA o : o \in RouteCalls)

\* C17: clone_repository takes exactly one of three routes according to the
\* state of local_dir: clone when it does not exist; remove it and clone when
\* it exists without a .git entry; fetch then pull, without removing or
\* cloning, when it exists with a .git entry.  The calls it makes are those
\* of that route, in order, up to the first call that raises, and all of
\* them when none raises.
C17_OneRouteByLocalDir ==
    call.fn = "clone_repository" =>
        LET route == Route(call.before.dirs, call.before.files)
            taken == Taken(call.ops)
        IN  /\ IsPrefix(taken, route)
            /\ (~call.raised \/ Last(call.ops) = "listdir") => taken = route

C17_Witness ==
    /\ call.fn = "clone_repository"
    /\ ~call.raised
    /\ Exists(call.before.dirs, call.before.files, LocalDir \o <<".git">>)
    /\ call.ops = <<"Repo", "fetch", "pull", "listdir">>
    /\ files # call.before.files

\* the names of the entries of local_dir
EntriesOfLocalDir ==
    IF AbsNames(LocalDir) \notin dirs THEN {}
    ELSE {n \in Range(NameOrder) : IsEntry(dirs, files, Append(AbsNames(LocalDir), n))}

\* the git call that was set to fail was made
GitCallFailed == call.fail \in Range(call.ops)

\* C22: clone_repository returns normally only if local_dir then holds more
\* than one entry; when the clone or the update fails, or local_dir holds at
\* most one entry afterwards, it raises to the caller.
C22_ReturnsOnlyWithFiles ==
    call.fn = "clone_repository" =>
        /\ ~call.raised => Cardinality(EntriesOfLocalDir) > 1
        /\ GitCallFailed => call.raised
        /\ Cardinality(EntriesOfLocalDir) <= 1 => call.raised

C22_Witness ==
    /\ call.fn = "clone_repository"
    /\ call.raised
    /\ ~GitCallFailed
    /\ Last(call.ops) = "listdir"
    /\ EntriesOfLocalDir = {".git"}

\* C25: whenever clone_repository returns normally, local_dir is a working
\* copy of the analyzer's repo_url checked out at the analyzer's branch, on
\* each of its routes.
C25_WorkingCopyOfRepoUrl ==
    (call.fn = "clone_repository" /\ ~call.raised) =>
        /\ GitConfigPath(AbsNames(LocalDir)) \in DOMAIN files
        /\ files[GitConfigPath(AbsNames(LocalDir))].origin = RepoUrl
        /\ files[GitConfigPath(AbsNames(LocalDir))].branch = Branch

Described == call.fn = "generate_file_descriptions"

\* The nodes of the run whose file could be read and for which the model
\* answered: the k-th node the model was called for got reply k.
ReplyTo(k) == IF k <= Len(call.replies) THEN call.replies[k] ELSE Summary

\* C15: generate_file_descriptions returns with every node of the graph
\* carrying a non-empty description: a node the model was called for and
\* answered carries that answer, every other node that had no description
\* carries the default text 'Terraform configuration file'.
C15_EveryNodeDescribed ==
    Described =>
        /\ \A n \in Nodes(dependency_graph) : GetDescription(dependency_graph, n) # <<>>
        /\ \A k \in 1..Len(call.calls) :
              GetDescription(dependency_graph, call.calls[k]) =
                  IF ReplyTo(k).raises THEN DefaultDescription
                  ELSE SelectSeq(ReplyTo(k).text, LAMBDA w : w \notin WhiteSpace)
        /\ \A n \in Nodes(call.before) \ Range(call.calls) :
              GetDescription(call.before, n) = <<>> =>
                  GetDescription(dependency_graph, n) = DefaultDescription

\* the node carries a description: the attribute is there and is not empty
HasDescription(g, n) ==
    "description" \in DOMAIN g.attrs[n] /\ g.attrs[n]["description"] # <<>>

None == "None"      \* what a method without a return statement returns

\* lines 352-356: the three steps; an exception of clone_repository or
\* build_dependency_graph leaves the method; the method returns nothing
analyze_repository(d, f, g, tree, fail, init_ok, replies) ==
    LET cloned == clone_repository(d, f, tree, fail)
        built == build_dependency_graph(cloned.dirs, cloned.files, g)
        described == generate_file_descriptions(cloned.dirs, cloned.files, built.g,
                                                init_ok, replies)
    IN  IF cloned.raised
        THEN [dirs |-> cloned.dirs, files |-> cloned.files, g |-> g,
              raised |-> TRUE, returned |-> None]
        ELSE IF built.raised
        THEN [dirs |-> cloned.dirs, files |-> cloned.files, g |-> built.g,
              raised |-> TRUE, returned |-> None]
        ELSE [dirs |-> cloned.dirs, files |-> cloned.files, g |-> described.g,
              raised |-> FALSE, returned |-> None]

GraphFile == Cwd \o <<"terraform_graph.json">>

\* lines 288-319: the nodes and edges as JSON
export_graph(f, g) == WithFile(f, GraphFile, Unparseable("json"))

NodesOfType(g, type) ==
    {n \in Nodes(g) : "type" \in DOMAIN g.attrs[n] /\ g.attrs[n]["type"] = type}

EdgesOfType(g, type) ==
    {e \in Edges(g) : "type" \in DOMAIN g.edges[e] /\ g.edges[e]["type"] = type}

\* lines 444-447: the two counts, from the value analyze_repository returned
PrintSummary(graph) ==
    IF graph = None
    THEN [raised |-> TRUE, files |-> 0, dependencies |-> 0]   \* None has no 'nodes'
    ELSE [raised |-> FALSE,
          files |-> Cardinality(NodesOfType(graph, "file")),
          dependencies |-> Cardinality(EdgesOfType(graph, "module_dependency"))]

\* line 439: graph = analyzer.analyze_repository()
MainAnalyze ==
    /\ phase = "new"
    /\ \E tree \in RemoteTrees : \E fail \in GitCalls \cup {"none"} :
       \E replies \in SeqsUpTo(Replies, MaxReplies) :
       \E init_ok \in (IF replies = <<>> THEN BOOLEAN ELSE {TRUE}) :
       \E out \in {analyze_repository(dirs, files, dependency_graph, tree, fail,
                                      init_ok, replies)} :
        /\ dirs' = out.dirs
        /\ files' = out.files
        /\ dependency_graph' = out.g
        /\ call' = [fn |-> "analyze_repository", fail |-> fail, init_ok |-> init_ok,
                    replies |-> replies, raised |-> out.raised,
                    graph |-> out.returned]
        /\ phase' = IF out.raised THEN "failed" ELSE "analyzed"
    /\ UNCHANGED <<trace, derived, builds, changes, relevant, prompts, mods, request>>

\* line 440: analyzer.export_graph(graph_file)
MainExport ==
    /\ phase = "analyzed"
    /\ files' = export_graph(files, dependency_graph)
    /\ phase' = "exported"
    /\ UNCHANGED <<dirs, dependency_graph, trace, derived, builds, changes, call,
                   relevant, prompts, mods, request>>

\* lines 445-447: the summary
MainSummary ==
    /\ phase = "exported"
    /\ \E out \in {PrintSummary(call.graph)} :
        call' = [fn |-> "summary", raised |-> out.raised, files |-> out.files,
                 dependencies |-> out.dependencies]
    /\ phase' = "summarised"
    /\ UNCHANGED <<dirs, files, dependency_graph, trace, derived, builds, changes,
                   relevant, prompts, mods, request>>

NextMain == MainAnalyze \/ MainExport \/ MainSummary

SpecMain == InitAnalyze /\ [][NextMain]_vars

\* C23: after analyze_repository succeeded, main exports the graph to
\* terraform_graph.json and then prints the summary without an error; the
\* number of Terraform files in it is the number of nodes of type 'file' and
\* the number of module dependencies is the number of edges of type
\* 'module_dependency'.
C23_SummaryCountsGraph ==
    phase = "summarised" =>
        /\ GraphFile \in DOMAIN files
        /\ ~call.raised
        /\ call.files = Cardinality(NodesOfType(dependency_graph, "file"))
        /\ call.dependencies =
              Cardinality(EdgesOfType(dependency_graph, "module_dependency"))

(***************************************************************************)
(* SpecDashboard: the handlers of the dashboard over st.session_state.     *)
(* request holds session_state.analyzer and .repo_analyzed, relevant holds *)
(* .relevant_files, mods holds .modifications, dependency_graph is the     *)
(* graph of the analyzer in session state, builds counts the analyses.     *)
(* derived records with which analyzer (its local_dir) relevant_files and  *)
(* modifications were computed.  Every analysis works in a directory of    *)
(* its own made by tempfile.mkdtemp(); the analyzer's operators read       *)
(* local_dir from LocalDir, so a handler applies them to the file system   *)
(* with the analyzer's directory in LocalDir's place.                      *)
(***************************************************************************)
MaxAnalyses == 2

MaxApplies == 1

TempNames == <<"t1", "t2", "t3", "t4">>

\* tempfile.mkdtemp(): a new directory on every call
TempDir(n) == <<"tmp", TempNames[n]>>

EmptyUrl == "https://github.com/o/empty"

DocsUrl == "https://github.com/o/docs"

DocsTree == Tree({}, (<<"README.md">> :> Unparseable("text")))

DashRepos == {RepoUrl, OtherUrl, EmptyUrl, DocsUrl}

\* what the remote repository of an address holds
RemoteOf(repo_url) ==
    CASE repo_url = RepoUrl -> FullTree
      [] repo_url = OtherUrl -> SmallTree
      [] repo_url = DocsUrl -> DocsTree
      [] OTHER -> BareTree

Moved(d, f, from, to) ==
    \* the file system with the directory from in the place of to
    LET there(a) == IF IsPrefix(from, a)
                    THEN to \o SubSeq(a, Len(from) + 1, Len(a)) ELSE a
        back(b) == IF IsPrefix(to, b)
                   THEN from \o SubSeq(b, Len(to) + 1, Len(b)) ELSE b
    IN  [dirs |-> {there(a) : a \in d},
         files |-> [b \in {there(a) : a \in DOMAIN f} |-> f[back(b)]]]

\* lines 319-326
NoSession == [analyzer |-> None, repo_analyzed |-> FALSE]

NoOrigin == [relevant_files |-> None, modifications |-> None]

InitDashboard ==
    /\ dirs = {<<>>, Cwd, <<"tmp">>}
    /\ files = [a \in {} |-> NoModules]
    /\ dependency_graph = EmptyGraph
    /\ trace = NoTrace
    /\ derived = NoOrigin
    /\ builds = 0
    /\ changes = 0
    /\ phase = "new"
    /\ call = NoCall
    /\ relevant = <<>>                     \* line 324
    /\ prompts = <<>>
    /\ mods = NoMods                       \* line 326
    /\ request = NoSession

\* lines 380-470: the handler of the Analyze Repository button
DashAnalyze ==
    /\ builds < MaxAnalyses
    /\ \E repo_url \in DashRepos : \E fail \in {"none", "clone_from"} :
       \E temp_dir \in {TempDir(builds + 1)} :
       \E v \in {Moved(dirs \cup {temp_dir}, files, temp_dir, Repo)} :
       \E cloned \in {clone_repository(v.dirs, v.files, RemoteOf(repo_url), fail)} :
       \E wc \in {IF cloned.raised THEN cloned.files
                  ELSE WithFile(cloned.files, GitConfigPath(Repo),
                                GitConfig(repo_url, "main"))} :
       \E tf_files \in {IF cloned.raised THEN <<>>
                        ELSE find_terraform_files(cloned.dirs, wc)} :
       \E st \in {IF tf_files = <<>>
                  THEN [g |-> EmptyGraph, steps |-> <<>>, raised |-> FALSE]
                  ELSE build_dependency_graph(cloned.dirs, wc, EmptyGraph)} :
       \E out \in {Moved(cloned.dirs, wc, Repo, temp_dir)} :
       \E analyzer \in {[repo_url |-> repo_url, branch |-> "main",
                         local_dir |-> temp_dir]} :
        /\ dirs' = out.dirs
        /\ files' = out.files
        /\ call' = [fn |-> "analyze", analyzer |-> analyzer, raised |-> cloned.raised]
        /\ IF cloned.raised
           THEN \* lines 397-414: st.stop()
                UNCHANGED <<request, dependency_graph, trace>>
           ELSE IF tf_files = <<>> \/ st.raised \/ Nodes(st.g) = {}
           THEN \* lines 418-420, 458-461, 468-470
                /\ request' = [request EXCEPT !.repo_analyzed = FALSE]
                /\ UNCHANGED <<dependency_graph, trace>>
           ELSE \* lines 463-465
                /\ request' = [analyzer |-> analyzer, repo_analyzed |-> TRUE]
                /\ dependency_graph' = st.g
                /\ trace' = [steps |-> st.steps, raised |-> st.raised]
    /\ builds' = builds + 1
    /\ phase' = "analyze"
    /\ UNCHANGED <<derived, changes, relevant, prompts, mods>>

DashResponses ==
    {[kind |-> "error", paths |-> <<>>],
     [kind |-> "array", paths |-> << <<"main.tf">> >>],
     [kind |-> "array", paths |-> << <<"mod", "x.tf">> >>],
     [kind |-> "array", paths |-> << <<"nope.tf">> >>]}

\* lines 568-588: the handler of the Identify Relevant Files button, shown
\* while repo_analyzed (line 473), with a request and credentials
DashIdentify ==
    /\ request.repo_analyzed
    /\ \E modification_request \in Requests : \E response \in DashResponses :
       \E analyzer \in {request.analyzer} :
       \E v \in {Moved(dirs, files, analyzer.local_dir, Repo)} :
        /\ relevant' = identify_relevant_files(v.dirs, v.files, dependency_graph,
                                               response)
        /\ call' = [fn |-> "identify", analyzer |-> analyzer,
                    request |-> modification_request]
        /\ derived' = [derived EXCEPT !.relevant_files = analyzer.local_dir]
    /\ phase' = "identify"
    /\ UNCHANGED <<dirs, files, dependency_graph, trace, builds, changes, prompts,
                   mods, request>>

DashAnswers == {Answer("", TRUE, body) : body \in {OneModule, NoModules}}

\* lines 600-620: the handler of the Generate Modifications button
DashGenerate ==
    /\ request.repo_analyzed
    /\ relevant # <<>>                    \* line 600
    /\ \E modification_request \in Requests : \E model_ok \in BOOLEAN :
       \E answer \in DashAnswers : \E analyzer \in {request.analyzer} :
       \E v \in {Moved(dirs, files, analyzer.local_dir, Repo)} :
       \E out \in {modify_files(v.dirs, v.files, modification_request, relevant,
                                model_ok, 0, answer)} :
        /\ prompts' = out.prompts
        /\ mods' = out.modifications
        /\ call' = [fn |-> "generate", analyzer |-> analyzer,
                    request |-> modification_request,
                    relevant_files |-> relevant,
                    computed_with |-> derived.relevant_files]
        /\ derived' = [derived EXCEPT !.modifications = analyzer.local_dir]
    /\ phase' = "generate"
    /\ UNCHANGED <<dirs, files, dependency_graph, trace, builds, changes, relevant,
                   request>>

\* lines 623-651: the handler of the Apply Modifications button, shown while
\* session_state.modifications is not empty
DashApply ==
    /\ request.repo_analyzed
    /\ mods.keys # <<>>                   \* line 623
    /\ changes < MaxApplies
    /\ \E analyzer \in {request.analyzer} :
       \E v \in {Moved(dirs, files, analyzer.local_dir, Repo)} :
       \E res \in {apply_modifications(v.dirs, v.files, mods, FALSE)} :
       \E out \in {Moved(res.dirs, res.files, Repo, analyzer.local_dir)} :
        /\ dirs' = out.dirs
        /\ files' = out.files
        /\ call' = [fn |-> "apply", analyzer |-> analyzer, modifications |-> mods,
                    computed_with |-> derived.modifications,
                    modified_files |-> res.modified_files]
    /\ changes' = changes + 1
    /\ phase' = "apply"
    /\ UNCHANGED <<dependency_graph, trace, derived, builds, relevant, prompts,
                   mods, request>>

NextDashboard == DashAnalyze \/ DashIdentify \/ DashGenerate \/ DashApply

SpecDashboard == InitDashboard /\ [][NextDashboard]_vars

\* C26: relevant_files and modifications in session state belong to the
\* repository of the analyzer in session state: what the dashboard displays
\* (lines 591-594, 623-630), what Generate Modifications uses and what Apply
\* Modifications writes was computed with the analyzer now in session state.
C26_ResultsOfCurrentAnalyzer ==
    request.repo_analyzed =>
        /\ relevant # <<>> => derived.relevant_files = request.analyzer.local_dir
        /\ mods.keys # <<>> => derived.modifications = request.analyzer.local_dir
        /\ phase = "generate" => call.computed_with = call.analyzer.local_dir
        /\ phase = "apply" => call.computed_with = call.analyzer.local_dir

=============================================================================
